---- MODULE Spec2Model ----
(***************************************************************************)
(* PDF_learner: the AI provider manager (backend/ai_providers/manager.py), *)
(* the retrieval-augmented chat bot (backend/chat_bot.py), the curriculum  *)
(* generator (backend/ai_processor.py) and the server (main.py).           *)
(*                                                                         *)
(* The specifications share the variables:                                 *)
(*   SpecManager  - register_provider, switch_provider, set_text_model,    *)
(*                  set_embedding_model, generate_text, generate_embeddings*)
(*   SpecChatBot  - create_vector_database (step by step), remove_document,*)
(*                  answer_question, update_settings                       *)
(*   SpecUsage    - concurrent calls of _update_usage_stats                *)
(*   SpecSanitize - ChatBot._sanitize_collection_name                      *)
(*   SpecSplit    - AIProcessor._split_text_into_chunks                    *)
(*   SpecServer   - upload_pdf, process_pdf_background (step by step),     *)
(*                  delete_file of main.py; SpecServerFair adds that a     *)
(*                  started background job takes its next step             *)
(*   SpecCurriculum - AIProcessor.create_curriculum                        *)
(* Numbers with a fractional part (distance, similarity, confidence) are   *)
(* integers counted in thousandths.  total_cost / cost (a float that is a  *)
(* fixed multiple of the token count) is not modelled.                     *)
(***************************************************************************)
EXTENDS Integers, Sequences, FiniteSets, TLC

VARIABLES
    \* AIProviderManager
    providers,                \* name -> adapter kind, or None
    current_provider,         \* provider name or None
    current_text_model,       \* model id or None
    current_embedding_model,  \* model id or None
    usage_stats,              \* totals and provider_stats
    mgrCall,                  \* the manager call that made the last step
    \* ChatBot and the Chroma store
    active_collections,       \* dict file_name -> collection name, in insertion order
    collections,              \* Chroma: collection name -> stored entries, or NoCollection
    jobs,                     \* file_name -> position of its create_vector_database call
    lastAnswer,               \* what the call returned, if the last call was answer_question
    embedding_dim,            \* the environment's EMBEDDING_DIMENSION
    chatCall,                 \* the remove_document call that made the last step, if any
    \* the server (main.py)
    chatbot,                  \* the global chatbot: "ChatBot", or None when ChatBot() raised
    uploads,                  \* the files in the upload folder
    file_processing_status,   \* file name -> status, or None when there is no entry
    tasks,                    \* file name -> position of its process_pdf_background call
    \* concurrent callers of the manager, and calls of the text functions
    threads,                  \* thread -> position in its generate call
    textCall                  \* the text function called last, its input and result

mgrVars == <<providers, current_provider, current_text_model,
             current_embedding_model, usage_stats, mgrCall>>
srvVars == <<chatbot, uploads, file_processing_status, tasks>>
\* the chat bot's variables and the server's: the actions of the chat bot say
\* nothing about srvVars, so that a step of the server can take one of them
chatVars == <<active_collections, collections, jobs, lastAnswer, embedding_dim,
             chatCall, srvVars>>
sideVars == <<threads, textCall>>
vars == <<providers, current_provider, current_text_model,
          current_embedding_model, usage_stats, mgrCall,
          active_collections, collections, jobs, lastAnswer, embedding_dim,
          chatCall, chatbot, uploads, file_processing_status, tasks, threads,
          textCall>>

None == "None"

(***************************************************************************)
(* Sequence helpers                                                        *)
(***************************************************************************)
Range(s) == {s[i] : i \in 1..Len(s)}

Min(a, b) == IF a <= b THEN a ELSE b

Max(a, b) == IF a >= b THEN a ELSE b

Take(s, n) == SubSeq(s, 1, Min(n, Len(s)))

RECURSIVE SumSeq(_)
SumSeq(s) == IF s = <<>> THEN 0 ELSE Head(s) + SumSeq(Tail(s))

(***************************************************************************)
(* Adapters.  An adapter is known to the manager through the abstract      *)
(* interface AIProviderAdapter; the model has the OpenAI adapter of the    *)
(* repository and a text-only adapter (a catalog without embedding         *)
(* models, as the "local" / "anthropic" provider configurations have).     *)
(***************************************************************************)
ProviderNames == {"openai", "local"}

AdapterKinds == {"OpenAIAdapter", "TextOnlyAdapter"}

AVAILABLE_MODELS ==
    << [id |-> "gpt-3.5-turbo", type |-> "text"],
       [id |-> "gpt-3.5-turbo-16k", type |-> "text"],
       [id |-> "gpt-4", type |-> "text"],
       [id |-> "gpt-4-turbo-preview", type |-> "text"] >>

EMBEDDING_MODELS ==
    << [id |-> "text-embedding-ada-002", type |-> "embedding"],
       [id |-> "text-embedding-3-small", type |-> "embedding"],
       [id |-> "text-embedding-3-large", type |-> "embedding"] >>

\* adapter.get_available_models()
get_available_models(kind) ==
    IF kind = "OpenAIAdapter" THEN AVAILABLE_MODELS \o EMBEDDING_MODELS
    ELSE << [id |-> "llama2", type |-> "text"] >>

\* [m for m in models if m.type == t], in catalog order
ModelsOfType(models, t) == SelectSeq(models, LAMBDA m : m.type = t)

\* [m for m in models if m.type == t and m.id == model_id]
ModelsMatching(models, t, model_id) ==
    SelectSeq(models, LAMBDA m : m.type = t /\ <<m.id>> = model_id)

(***************************************************************************)
(* The manager's fields as one record, so that a method is an operator     *)
(* from the state before the call to the state after it and its outcome.   *)
(* out: "true" / "false" (the returned bool), "ok" (a result object), or   *)
(* "raised" (an exception leaves the method).                              *)
(***************************************************************************)
NoStats == [text_requests |-> -1, embedding_requests |-> -1, tokens_used |-> -1]

ZeroStats == [text_requests |-> 0, embedding_requests |-> 0, tokens_used |-> 0]

Mgr == [providers |-> providers,
        current_provider |-> current_provider,
        current_text_model |-> current_text_model,
        current_embedding_model |-> current_embedding_model,
        usage_stats |-> usage_stats]

\* AIProviderManager.__init__
NewManager ==
    [providers |-> [n \in ProviderNames |-> None],
     current_provider |-> None,
     current_text_model |-> None,
     current_embedding_model |-> None,
     usage_stats |-> [total_text_requests |-> 0,
                      total_embedding_requests |-> 0,
                      total_tokens_used |-> 0,
                      provider_stats |-> [n \in ProviderNames |-> NoStats]]]

\* Outcomes of the adapter's methods, chosen by the environment at each call.
BoolOutcomes == {"true", "false", "raise"}

CatalogOutcomes == {"ok", "raise"}

\* switch_provider selecting the last model of each type instead of the first
switch_provider_last_model(M, provider_name, avail, cat) ==
    IF provider_name \notin ProviderNames \/ M.providers[provider_name] = None
    THEN [M |-> M, out |-> "false"]
    ELSE IF avail = "raise" THEN [M |-> M, out |-> "raised"]
    ELSE IF avail = "false" THEN [M |-> M, out |-> "false"]
    ELSE LET M1 == [M EXCEPT !.current_provider = provider_name]
             models == get_available_models(M.providers[provider_name])
             text_models == ModelsOfType(models, "text")
             embedding_models == ModelsOfType(models, "embedding")
         IN  IF cat = "raise" THEN [M |-> M1, out |-> "raised"]
             ELSE [M |-> [M1 EXCEPT
                      !.current_text_model =
                          IF text_models # <<>>
                          THEN text_models[Len(text_models)].id ELSE @,
                      !.current_embedding_model =
                          IF embedding_models # <<>>
                          THEN embedding_models[Len(embedding_models)].id ELSE @],
                   out |-> "true"]

\* switch_provider(provider_name); avail: adapter.is_available(),
\* cat: adapter.get_available_models()
switch_provider(M, provider_name, avail, cat) ==
    IF provider_name \notin ProviderNames \/ M.providers[provider_name] = None
    THEN [M |-> M, out |-> "false"]
    ELSE IF avail = "raise" THEN [M |-> M, out |-> "raised"]
    ELSE IF avail = "false" THEN [M |-> M, out |-> "false"]
    ELSE LET M1 == [M EXCEPT !.current_provider = provider_name]
             models == get_available_models(M.providers[provider_name])
             text_models == ModelsOfType(models, "text")
             embedding_models == ModelsOfType(models, "embedding")
         IN  IF cat = "raise" THEN [M |-> M1, out |-> "raised"]
             ELSE [M |-> [M1 EXCEPT
                      !.current_text_model =
                          IF text_models # <<>> THEN text_models[1].id ELSE @,
                      !.current_embedding_model =
                          IF embedding_models # <<>> THEN embedding_models[1].id ELSE @],
                   out |-> "true"]

\* register_provider(name, adapter); valid: adapter.validate_config(),
\* init: adapter.initialize()
register_provider(M, name, kind, valid, init, avail, cat) ==
    IF valid = "raise" \/ valid = "false" THEN [M |-> M, out |-> "false"]
    ELSE IF init = "raise" \/ init = "false" THEN [M |-> M, out |-> "false"]
    ELSE LET M1 == [M EXCEPT !.providers[name] = kind,
                             !.usage_stats.provider_stats[name] = ZeroStats]
         IN  IF M1.current_provider = None
             THEN LET sw == switch_provider(M1, name, avail, cat)
                  IN  [M |-> sw.M,
                       out |-> IF sw.out = "raised" THEN "false" ELSE "true"]
             ELSE [M |-> M1, out |-> "true"]

\* get_current_provider(): the adapter kind, or None
get_current_provider(M) ==
    IF M.current_provider # None /\ M.providers[M.current_provider] # None
    THEN M.providers[M.current_provider]
    ELSE None

(***************************************************************************)
(* A model_spec is a string; the model keeps it as the sequence of its     *)
(* pieces, ":" being a piece of its own, so that `":" in model_spec` and   *)
(* model_spec.split(":", 1) are computed.                                  *)
(***************************************************************************)
HasColon(model_spec) == \E i \in 1..Len(model_spec) : model_spec[i] = ":"

FirstColon(model_spec) ==
    CHOOSE i \in 1..Len(model_spec) :
        model_spec[i] = ":" /\ \A j \in 1..(i - 1) : model_spec[j] # ":"

\* provider_name, model_id = model_spec.split(":", 1)
SplitProvider(model_spec) == SubSeq(model_spec, 1, FirstColon(model_spec) - 1)

SplitModel(model_spec) ==
    SubSeq(model_spec, FirstColon(model_spec) + 1, Len(model_spec))

\* the provider named by the pieces before the colon is a key of providers
Registered(M, provider_pieces) ==
    /\ Len(provider_pieces) = 1
    /\ provider_pieces[1] \in ProviderNames
    /\ M.providers[provider_pieces[1]] # None

\* set_text_model(model_spec)
set_text_model(M, model_spec, avail, cat) ==
    IF HasColon(model_spec) /\ ~Registered(M, SplitProvider(model_spec))
    THEN [M |-> M, out |-> "false"]
    ELSE LET sw == IF HasColon(model_spec)
                   THEN switch_provider(M, SplitProvider(model_spec)[1], avail, cat)
                   ELSE [M |-> M, out |-> "none"]
             model_id == IF HasColon(model_spec) THEN SplitModel(model_spec)
                         ELSE model_spec
             M1 == sw.M
             current_adapter == get_current_provider(M1)
         IN  IF sw.out = "raised" THEN [M |-> M1, out |-> "false"]
             ELSE IF current_adapter = None THEN [M |-> M1, out |-> "false"]
             ELSE IF cat = "raise" THEN [M |-> M1, out |-> "false"]
             ELSE IF ModelsMatching(get_available_models(current_adapter),
                                    "text", model_id) # <<>>
                  THEN [M |-> [M1 EXCEPT !.current_text_model = model_id[1]],
                        out |-> "true"]
                  ELSE [M |-> M1, out |-> "false"]

\* set_embedding_model(model_spec)
set_embedding_model(M, model_spec, cat) ==
    IF HasColon(model_spec) /\ ~Registered(M, SplitProvider(model_spec))
    THEN [M |-> M, out |-> "false"]
    ELSE LET model_id == IF HasColon(model_spec) THEN SplitModel(model_spec)
                         ELSE model_spec
             current_adapter == get_current_provider(M)
         IN  IF current_adapter = None THEN [M |-> M, out |-> "false"]
             ELSE IF cat = "raise" THEN [M |-> M, out |-> "false"]
             ELSE IF ModelsMatching(get_available_models(current_adapter),
                                    "embedding", model_id) # <<>>
                  THEN [M |-> [M EXCEPT !.current_embedding_model = model_id[1]],
                        out |-> "true"]
                  ELSE [M |-> M, out |-> "false"]

(***************************************************************************)
(* Text generation and embeddings through the manager                      *)
(***************************************************************************)
\* What the environment lets the adapter's call to the endpoint do.
AdapterOutcomes == {"ok", "not_initialized", "rate_limit", "connection"}

\* adapter.generate_text / adapter.generate_embeddings: "ok" or the error raised
AdapterGenerate(kind, type, model, outcome) ==
    IF outcome = "not_initialized" THEN "ProviderConnectionError"
    ELSE IF ModelsMatching(get_available_models(kind), type, <<model>>) = <<>>
         THEN "UnsupportedModelError"
    ELSE IF outcome = "rate_limit" THEN "RateLimitError"
    ELSE IF outcome = "connection" THEN "ProviderConnectionError"
    ELSE "ok"

\* _update_usage_stats(request_type, tokens_used, cost)
update_usage_stats(M, request_type, tokens_used) ==
    LET U1 == [M.usage_stats EXCEPT
                 !.total_text_requests =
                     IF request_type = "text" THEN @ + 1 ELSE @,
                 !.total_embedding_requests =
                     IF request_type = "embedding" THEN @ + 1 ELSE @,
                 !.total_tokens_used = @ + tokens_used]
        cur == M.current_provider
    IN  IF cur = None THEN [M |-> [M EXCEPT !.usage_stats = U1], out |-> "ok"]
        ELSE IF U1.provider_stats[cur] = NoStats   \* KeyError
        THEN [M |-> [M EXCEPT !.usage_stats = U1], out |-> "raised"]
        ELSE [M |-> [M EXCEPT !.usage_stats =
                       [U1 EXCEPT
                          !.provider_stats[cur].text_requests =
                              IF request_type = "text" THEN @ + 1 ELSE @,
                          !.provider_stats[cur].embedding_requests =
                              IF request_type = "embedding" THEN @ + 1 ELSE @,
                          !.provider_stats[cur].tokens_used = @ + tokens_used]],
              out |-> "ok"]

\* the endpoint called before the model is validated against the catalog
EndpointCalled_unvalidated(kind, type, model, outcome) ==
    outcome # "not_initialized"

\* TRUE iff adapter.generate_text / generate_embeddings reaches the call of
\* the endpoint (client.chat.completions.create / client.embeddings.create)
EndpointCalled(kind, type, model, outcome) ==
    /\ outcome # "not_initialized"
    /\ ModelsMatching(get_available_models(kind), type, <<model>>) # <<>>

\* no error raised
NoError == [class |-> "none", provider |-> None, cause |-> "none"]

\* generate counting the request before the adapter has answered
generate_counting_first(M, request_type, model, outcome, tokens_used) ==
    LET current_adapter == get_current_provider(M)
        default == IF request_type = "text" THEN M.current_text_model
                   ELSE M.current_embedding_model
        m == IF model # None THEN model ELSE default
    IN  IF current_adapter = None
        THEN [M |-> M, out |-> "raised", endpoint |-> FALSE,
              error |-> [class |-> "AIProviderError", provider |-> None,
                         cause |-> "none"]]
        ELSE IF m = None
        THEN [M |-> M, out |-> "raised", endpoint |-> FALSE,
              error |-> [class |-> "UnsupportedModelError", provider |-> None,
                         cause |-> "none"]]
        ELSE LET res == AdapterGenerate(current_adapter, request_type, m, outcome)
                 called == EndpointCalled(current_adapter, request_type, m, outcome)
                 upd == update_usage_stats(M, request_type, tokens_used)
             IN  IF res # "ok"
                 THEN [M |-> upd.M, out |-> "raised", endpoint |-> called,
                       error |-> [class |-> "AIProviderError",
                                  provider |-> M.current_provider, cause |-> res]]
                 ELSE [M |-> upd.M, out |-> "ok", endpoint |-> called,
                       error |-> NoError]

\* generate_text (request_type "text") and generate_embeddings ("embedding"):
\* the two methods differ only in the request type and the default model.
\* error: the exception raised to the caller: its class, its provider
\* attribute, and the class of the adapter's exception, of which the new
\* exception keeps only str(e) inside its message (error_code stays None);
\* endpoint: whether the adapter issued the call of the endpoint.
generate(M, request_type, model, outcome, tokens_used) ==
    LET current_adapter == get_current_provider(M)
        default == IF request_type = "text" THEN M.current_text_model
                   ELSE M.current_embedding_model
        m == IF model # None THEN model ELSE default
    IN  IF current_adapter = None
        THEN [M |-> M, out |-> "raised", endpoint |-> FALSE,
              error |-> [class |-> "AIProviderError", provider |-> None,
                         cause |-> "none"]]
        ELSE IF m = None
        THEN [M |-> M, out |-> "raised", endpoint |-> FALSE,
              error |-> [class |-> "UnsupportedModelError", provider |-> None,
                         cause |-> "none"]]
        ELSE LET res == AdapterGenerate(current_adapter, request_type, m, outcome)
                 called == EndpointCalled(current_adapter, request_type, m, outcome)
                 upd == update_usage_stats(M, request_type, tokens_used)
             IN  IF res # "ok"
                 THEN [M |-> M, out |-> "raised", endpoint |-> called,
                       error |-> [class |-> "AIProviderError",
                                  provider |-> M.current_provider, cause |-> res]]
                 ELSE IF upd.out = "raised"
                 THEN [M |-> upd.M, out |-> "raised", endpoint |-> called,
                       error |-> [class |-> "AIProviderError",
                                  provider |-> M.current_provider,
                                  cause |-> "KeyError"]]
                 ELSE [M |-> upd.M, out |-> "ok", endpoint |-> called,
                       error |-> NoError]

generate_text(M, model, outcome, tokens_used) ==
    generate(M, "text", model, outcome, tokens_used)

generate_embeddings(M, model, outcome, tokens_used) ==
    generate(M, "embedding", model, outcome, tokens_used)

(***************************************************************************)
(* Inputs of the manager's calls                                           *)
(***************************************************************************)
\* Successful generate calls explored in SpecManager.
MaxRequests == 1

TokenCounts == {2}

\* model ids offered to set_text_model / set_embedding_model / generate
ModelIds == {"gpt-4", "text-embedding-3-small", "llama2", "nonexistent-model"}

ModelSpecs == {<<m>> : m \in ModelIds}
                \cup {<<p, ":", m>> : p \in ProviderNames, m \in ModelIds}

\* model overrides passed to generate_text / generate_embeddings
ModelArgs == {None, "gpt-4", "text-embedding-3-small"}

\* What an adapter does during one call of the manager: each method returns
\* or raises; a method after the first failure is not reached.
AdapterBehaviours ==
    { [valid |-> "true", init |-> "true", avail |-> "true", cat |-> "ok"],
      [valid |-> "false", init |-> "true", avail |-> "true", cat |-> "ok"],
      [valid |-> "raise", init |-> "true", avail |-> "true", cat |-> "ok"],
      [valid |-> "true", init |-> "false", avail |-> "true", cat |-> "ok"],
      [valid |-> "true", init |-> "raise", avail |-> "true", cat |-> "ok"],
      [valid |-> "true", init |-> "true", avail |-> "false", cat |-> "ok"],
      [valid |-> "true", init |-> "true", avail |-> "raise", cat |-> "ok"],
      [valid |-> "true", init |-> "true", avail |-> "true", cat |-> "raise"] }

\* the behaviours seen by a call that neither validates nor initializes
RegisteredBehaviours ==
    {b \in AdapterBehaviours : b.valid = "true" /\ b.init = "true"}

TotalRequests(U) == U.total_text_requests + U.total_embedding_requests

SetMgr(M) ==
    /\ providers' = M.providers
    /\ current_provider' = M.current_provider
    /\ current_text_model' = M.current_text_model
    /\ current_embedding_model' = M.current_embedding_model
    /\ usage_stats' = M.usage_stats

(***************************************************************************)
(* Actions of the manager                                                  *)
(***************************************************************************)
RegisterProvider(name, kind, valid, init, avail, cat) ==
    LET r == register_provider(Mgr, name, kind, valid, init, avail, cat)
    IN  /\ SetMgr(r.M)
        /\ mgrCall' = [op |-> "register_provider", arg |-> <<name>>, env |-> <<>>,
                     ret |-> r.out,
                     error |-> NoError, endpoint |-> FALSE]
        /\ UNCHANGED <<chatVars, sideVars>>

SwitchProvider(name, avail, cat) ==
    LET r == switch_provider(Mgr, name, avail, cat)
    IN  /\ SetMgr(r.M)
        /\ mgrCall' = [op |-> "switch_provider", arg |-> <<name>>, env |-> <<avail, cat>>,
                     ret |-> r.out,
                     error |-> NoError, endpoint |-> FALSE]
        /\ UNCHANGED <<chatVars, sideVars>>

SetTextModel(model_spec, avail, cat) ==
    LET r == set_text_model(Mgr, model_spec, avail, cat)
    IN  /\ SetMgr(r.M)
        /\ mgrCall' = [op |-> "set_text_model", arg |-> model_spec, env |-> <<>>,
                     ret |-> r.out,
                     error |-> NoError, endpoint |-> FALSE]
        /\ UNCHANGED <<chatVars, sideVars>>

SetEmbeddingModel(model_spec, cat) ==
    LET r == set_embedding_model(Mgr, model_spec, cat)
    IN  /\ SetMgr(r.M)
        /\ mgrCall' = [op |-> "set_embedding_model", arg |-> model_spec, env |-> <<>>,
                     ret |-> r.out,
                     error |-> NoError, endpoint |-> FALSE]
        /\ UNCHANGED <<chatVars, sideVars>>

GenerateText(model, outcome, tokens_used) ==
    LET r == generate_text(Mgr, model, outcome, tokens_used)
    IN  /\ r.out = "ok" => TotalRequests(usage_stats) < MaxRequests
        /\ SetMgr(r.M)
        /\ mgrCall' = [op |-> "generate_text", arg |-> <<model>>,
                     env |-> <<outcome>>,
                     ret |-> r.out,
                     error |-> r.error, endpoint |-> r.endpoint]
        /\ UNCHANGED <<chatVars, sideVars>>

GenerateEmbeddings(model, outcome, tokens_used) ==
    LET r == generate_embeddings(Mgr, model, outcome, tokens_used)
    IN  /\ r.out = "ok" => TotalRequests(usage_stats) < MaxRequests
        /\ SetMgr(r.M)
        /\ mgrCall' = [op |-> "generate_embeddings", arg |-> <<model>>,
                     env |-> <<outcome>>,
                     ret |-> r.out,
                     error |-> r.error, endpoint |-> r.endpoint]
        /\ UNCHANGED <<chatVars, sideVars>>

SetMgrInit ==
    /\ providers = NewManager.providers
    /\ current_provider = NewManager.current_provider
    /\ current_text_model = NewManager.current_text_model
    /\ current_embedding_model = NewManager.current_embedding_model
    /\ usage_stats = NewManager.usage_stats

NoCall == [op |-> "none", arg |-> <<>>, env |-> <<>>, ret |-> "none",
           error |-> NoError, endpoint |-> FALSE]

InitSideVars ==
    /\ threads = <<>>
    /\ textCall = <<>>

InitServerVars ==
    /\ chatbot = "ChatBot"
    /\ uploads = {}
    /\ file_processing_status = <<>>
    /\ tasks = <<>>

InitChatVars ==
    /\ active_collections = <<>>
    /\ collections = <<>>
    /\ jobs = <<>>
    /\ lastAnswer = <<>>
    /\ embedding_dim = 0
    /\ chatCall = <<>>
    /\ InitServerVars

InitManager ==
    /\ SetMgrInit
    /\ mgrCall = NoCall
    /\ InitChatVars
    /\ InitSideVars

NextManager ==
    \/ \E name \in ProviderNames, kind \in AdapterKinds, b \in AdapterBehaviours :
            RegisterProvider(name, kind, b.valid, b.init, b.avail, b.cat)
    \/ \E name \in ProviderNames, b \in RegisteredBehaviours :
            SwitchProvider(name, b.avail, b.cat)
    \/ \E model_spec \in ModelSpecs, b \in RegisteredBehaviours :
            SetTextModel(model_spec, b.avail, b.cat)
    \/ \E model_spec \in ModelSpecs, b \in {x \in RegisteredBehaviours : x.avail = "true"} :
            SetEmbeddingModel(model_spec, b.cat)
    \/ \E model \in ModelArgs, outcome \in AdapterOutcomes, tokens_used \in TokenCounts :
            GenerateText(model, outcome, tokens_used)
    \/ \E model \in ModelArgs, outcome \in AdapterOutcomes, tokens_used \in TokenCounts :
            GenerateEmbeddings(model, outcome, tokens_used)

SpecManager == InitManager /\ [][NextManager]_vars

(***************************************************************************)
(* The text functions: ChatBot._sanitize_collection_name and               *)
(* AIProcessor._split_text_into_chunks.  A string is the sequence of its   *)
(* characters.  textCall is the sequence of the calls made so far, each    *)
(* with its input and its result.                                          *)
(***************************************************************************)
Letters ==
    {"a", "b", "c", "d", "e", "f", "g", "h", "i", "j", "k", "l", "m",
     "n", "o", "p", "q", "r", "s", "t", "u", "v", "w", "x", "y", "z",
     "A", "B", "C", "D", "E", "F", "G", "H", "I", "J", "K", "L", "M",
     "N", "O", "P", "Q", "R", "S", "T", "U", "V", "W", "X", "Y", "Z"}

Digits == {"0", "1", "2", "3", "4", "5", "6", "7", "8", "9"}

\* [a-zA-Z0-9]
AlphaNumeric == Letters \cup Digits

\* [a-zA-Z0-9._-]
SafeCharacters == AlphaNumeric \cup {".", "_", "-"}

HexDigits == <<"0", "1", "2", "3", "4", "5", "6", "7",
               "8", "9", "a", "b", "c", "d", "e", "f">>

\* the characters of the inputs, in an order that gives each a code
Characters == <<"a", "b", "p", "d", "f", "_", " ", ".", "-", "#", "\n",
                "o", "c", "A", "B">>

Code(c) == CHOOSE i \in 1..Len(Characters) : Characters[i] = c

\* s * n
Repeat(s, n) == [i \in 1..(n * Len(s)) |-> s[((i - 1) % Len(s)) + 1]]

\* the characters of s at the positions i where keep[i] holds
KeepWhere(s, keep) ==
    LET marked == [i \in 1..Len(s) |-> <<s[i], keep[i]>>]
        kept == SelectSeq(marked, LAMBDA m : m[2])
    IN  [i \in 1..Len(kept) |-> kept[i][1]]

OccursAt(s, old, i) ==
    /\ i >= 1
    /\ i + Len(old) - 1 <= Len(s)
    /\ SubSeq(s, i, i + Len(old) - 1) = old

\* s.replace(old, ''), for an old no two occurrences of which can overlap
\* (as '.pdf'): the characters of every occurrence of old are removed
replace(s, old) ==
    KeepWhere(s, [i \in 1..Len(s) |->
                     \A j \in (i - Len(old) + 1)..i : ~OccursAt(s, old, j)])

\* re.sub(r'[^a-zA-Z0-9._-]', '_', s)
sub_unsafe(s) == [i \in 1..Len(s) |-> IF s[i] \in SafeCharacters THEN s[i] ELSE "_"]

\* re.sub(r'_+', '_', s)
sub_underscores(s) ==
    KeepWhere(s, [i \in 1..Len(s) |-> ~(s[i] = "_" /\ i > 1 /\ s[i - 1] = "_")])

\* s.strip(chars)
RECURSIVE lstrip(_, _)
lstrip(s, chars) ==
    IF s # <<>> /\ Head(s) \in chars THEN lstrip(Tail(s), chars) ELSE s

RECURSIVE rstrip(_, _)
rstrip(s, chars) ==
    IF s # <<>> /\ s[Len(s)] \in chars
    THEN rstrip(SubSeq(s, 1, Len(s) - 1), chars)
    ELSE s

strip(s, chars) == rstrip(lstrip(s, chars), chars)

(***************************************************************************)
(* hashlib.md5(file_name.encode('utf-8')).hexdigest()[:8]: eight           *)
(* hexadecimal digits that depend on nothing but the characters of         *)
(* file_name.  MD5 itself is replaced by a position-weighted sum of the    *)
(* character codes, one sum per digit; as with MD5, two different names    *)
(* may have the same digest.                                               *)
(***************************************************************************)
RECURSIVE WeightedSum(_, _, _, _)
WeightedSum(s, lo, hi, k) ==
    IF lo > hi THEN 0
    ELSE IF lo = hi THEN ((lo + k) * Code(s[lo])) % 16
    ELSE LET mid == (lo + hi) \div 2
         IN  (WeightedSum(s, lo, mid, k) + WeightedSum(s, mid + 1, hi, k)) % 16

hexdigest8(file_name) ==
    [k \in 1..8 |->
        HexDigits[((Len(file_name) + WeightedSum(file_name, 1, Len(file_name), k)) % 16) + 1]]

doc_ == <<"d", "o", "c", "_">>

\* steps 1-3: the name without '.pdf', unsafe characters replaced, runs of
\* '_' collapsed, '_' stripped from both ends
clean_name(file_name) ==
    strip(sub_underscores(sub_unsafe(replace(file_name, <<".", "p", "d", "f">>))),
          {"_"})

\* step 4: the prefix, or the digest when fewer than 3 characters are left
prefixed_name(file_name) ==
    IF Len(clean_name(file_name)) < 3
    THEN doc_ \o hexdigest8(file_name)
    ELSE doc_ \o clean_name(file_name)

\* step 5: the length limit
limited_name(file_name) ==
    LET safe_chars == prefixed_name(file_name)
    IN  IF Len(safe_chars) > 100
        THEN doc_ \o SubSeq(safe_chars, 1, 50) \o <<"_">> \o hexdigest8(file_name)
        ELSE safe_chars

StartsAlphaNumeric(s) ==
    /\ Len(s) >= 2
    /\ s[1] \in AlphaNumeric

\* re.match(r'^[a-zA-Z0-9].*[a-zA-Z0-9]$', s), for s without line breaks
StartsAndEndsAlphaNumeric(s) ==
    /\ Len(s) >= 2
    /\ s[1] \in AlphaNumeric
    /\ s[Len(s)] \in AlphaNumeric

\* step 6 and the return
_sanitize_collection_name(file_name) ==
    IF ~StartsAndEndsAlphaNumeric(limited_name(file_name))
    THEN doc_ \o hexdigest8(file_name)
    ELSE limited_name(file_name)

\* the returned name holds the digest of file_name (one of the three
\* branches that call hashlib.md5 was taken)
HashFallback(file_name) ==
    \/ Len(clean_name(file_name)) < 3
    \/ Len(prefixed_name(file_name)) > 100
    \/ ~StartsAndEndsAlphaNumeric(limited_name(file_name))

(***************************************************************************)
(* ChatBot (backend/chat_bot.py) over the Chroma store.                    *)
(*                                                                         *)
(* An embedding is a vector of one component, in thousandths; Chroma's     *)
(* default distance is the squared L2 distance.  The usage counters of the *)
(* manager are not read by the chat bot; SpecChatBot keeps the manager as  *)
(* it was initialized and takes from it only the outcome of each call      *)
(* (the counters are SpecManager's subject).                               *)
(***************************************************************************)
Docs == {"docA", "docB"}

\* extracted_data["pages"] of each file after _split_page_text: per page the
\* chunks with their stripped length and the embedding the model returns
ExtractedPages(file_name) ==
    IF file_name = "docA"
    THEN << [page_number |-> 1,
             chunks |-> << [length |-> 120, embedding |-> 500],
                           [length |-> 50, embedding |-> 1000],
                           [length |-> 300, embedding |-> -1000] >>],
            [page_number |-> 2,
             chunks |-> << [length |-> 51, embedding |-> 1000] >>] >>
    ELSE << [page_number |-> 1,
             chunks |-> << [length |-> 49, embedding |-> 1000],
                           [length |-> 200, embedding |-> -500] >>] >>

\* the embedding of the question, and the substitute of a failed embedding
QuestionEmbedding == 1000

ZeroVector == 0

\* len(chunk.strip()) > 50
MinChunkLength == 50

\* EMBEDDING_BATCH_SIZE, set by the environment (default 50)
BatchSize == 2

\* top_k values offered to answer_question (its default is 3)
MaxTopK == 2

\* ChatBot.model, ChatBot.embedding_model
ChatTextModel == "gpt-3.5-turbo"

ChatEmbeddingModel == "text-embedding-ada-002"

\* a collection name Chroma has no collection for, and a collection just created
NoCollection == [exists |-> FALSE, entries |-> <<>>]

EmptyCollection == [exists |-> TRUE, entries |-> <<>>]

\* the characters of the file names (stems) of the model
FileNameCharacters(file_name) ==
    CASE file_name = "docA" -> <<"d", "o", "c", "A">>
      [] file_name = "docB" -> <<"d", "o", "c", "B">>
      [] file_name = "doc A" -> <<"d", "o", "c", " ", "A">>
      [] file_name = "doc_A" -> <<"d", "o", "c", "_", "A">>

\* the file names (stems) of the model: those of Docs, and two names that
\* differ in one character outside [a-zA-Z0-9._-]
ModelFileNames == {"docA", "docB", "doc A", "doc_A"}

\* the collection name of each file name, computed once
CollectionNameOf ==
    [file_name \in ModelFileNames |-> _sanitize_collection_name(FileNameCharacters(file_name))]

\* self._sanitize_collection_name(file_name)
sanitize_collection_name(file_name) == CollectionNameOf[file_name]

CollectionNames == {sanitize_collection_name(d) : d \in Docs}

(***************************************************************************)
(* active_collections, a dict: a sequence of items in insertion order      *)
(***************************************************************************)
DictHas(dict, key) == \E i \in 1..Len(dict) : dict[i].key = key

DictGet(dict, key) == dict[CHOOSE i \in 1..Len(dict) : dict[i].key = key].value

DictSet(dict, key, value) ==
    IF DictHas(dict, key)
    THEN [i \in 1..Len(dict) |->
             IF dict[i].key = key THEN [key |-> key, value |-> value] ELSE dict[i]]
    ELSE Append(dict, [key |-> key, value |-> value])

DictDel(dict, key) == SelectSeq(dict, LAMBDA item : item.key # key)

(***************************************************************************)
(* create_vector_database                                                  *)
(***************************************************************************)
RECURSIVE PageDocuments(_, _, _, _)
\* the chunks of one page that are kept, with metadata and id
PageDocuments(file_name, page_number, chunks, i) ==
    IF i > Len(chunks) THEN <<>>
    ELSE (IF chunks[i].length > MinChunkLength
          THEN << [id |-> <<file_name, page_number, i - 1>>,
                   file_name |-> file_name,
                   page_number |-> page_number,
                   chunk_index |-> i - 1,
                   text_embedding |-> chunks[i].embedding] >>
          ELSE <<>>)
         \o PageDocuments(file_name, page_number, chunks, i + 1)

RECURSIVE Documents(_, _)
\* documents / metadatas / ids of create_vector_database
Documents(file_name, pages) ==
    IF pages = <<>> THEN <<>>
    ELSE PageDocuments(file_name, Head(pages).page_number, Head(pages).chunks, 1)
         \o Documents(file_name, Tail(pages))

\* _generate_embeddings(texts): the model's vectors, or zero vectors when the
\* manager's call raises
chat_generate_embeddings(texts, outcome) ==
    IF generate_embeddings(Mgr, ChatEmbeddingModel, outcome, 0).out = "ok"
    THEN texts
    ELSE [i \in 1..Len(texts) |-> ZeroVector]

\* int(os.getenv("EMBEDDING_DIMENSION", "1536"))
DEFAULT_EMBEDDING_DIMENSION == 1536

\* the values the environment sets EMBEDDING_DIMENSION to: the default, and
\* the dimension of text-embedding-3-large
EmbeddingDimensions == {DEFAULT_EMBEDDING_DIMENSION, 2 * DEFAULT_EMBEDDING_DIMENSION}

\* the length of the vectors the endpoint returns for the model
ModelDimension(model) ==
    IF model = "text-embedding-3-large" THEN 2 * DEFAULT_EMBEDDING_DIMENSION
    ELSE DEFAULT_EMBEDDING_DIMENSION

\* the length of each vector _generate_embeddings returns: that of the
\* model's vectors, or of [0.0] * embedding_dim when the manager's call raises
chat_embedding_dimension(outcome, env_dimension) ==
    IF generate_embeddings(Mgr, ChatEmbeddingModel, outcome, 0).out = "ok"
    THEN ModelDimension(ChatEmbeddingModel)
    ELSE env_dimension

\* the entries collection.add is given for one batch
BatchEntries(batch, outcome, env_dimension) ==
    LET embeddings ==
            chat_generate_embeddings([i \in 1..Len(batch) |-> batch[i].text_embedding],
                                     outcome)
    IN  [i \in 1..Len(batch) |->
            [id |-> batch[i].id,
             file_name |-> batch[i].file_name,
             page_number |-> batch[i].page_number,
             chunk_index |-> batch[i].chunk_index,
             embedding |-> embeddings[i],
             dimension |-> chat_embedding_dimension(outcome, env_dimension)]]

\* Chroma rejects vectors whose length is not that of the vectors the
\* collection holds (InvalidDimensionException)
DimensionMismatch(collection, dimension) ==
    /\ collection.entries # <<>>
    /\ collection.entries[1].dimension # dimension

\* lastAnswer when the last call was not answer_question
NoAnswer ==
    [kind |-> "none", sources |-> <<>>, confidence |-> 0, generation |-> "not_called",
     call |-> [file_name |-> None, top_k |-> 0, index_size |-> -1, n_hits |-> 0,
               relevant_chunks |-> <<>>, question_embedding |-> 0, failing |-> {}]]

NoChatCall == [op |-> "none", arg |-> None, ret |-> FALSE]

Idle == [pc |-> "idle", pending |-> <<>>, staged |-> <<>>, stale |-> FALSE]

\* what the endpoint does during a manager call made by the chat bot
ChatOutcomes == {"ok", "connection"}

\* create_vector_database up to the batch loop: delete the collection of that
\* name if there is one, create it empty, prepare the documents
CreateVectorDatabaseBegin(file_name) ==
    /\ jobs[file_name].pc = "idle"
    /\ collections' = [collections EXCEPT
           ![sanitize_collection_name(file_name)] = EmptyCollection]
    /\ jobs' = [jobs EXCEPT ![file_name] =
                   [pc |-> "loop",
                    pending |-> Documents(file_name, ExtractedPages(file_name)),
                    staged |-> <<>>,
                    stale |-> FALSE]]
    /\ UNCHANGED <<active_collections, embedding_dim>>
    /\ lastAnswer' = NoAnswer
    /\ chatCall' = NoChatCall
    /\ UNCHANGED <<mgrVars, sideVars>>

\* one pass of the batch loop, first statement:
\* embeddings = self._generate_embeddings(batch_docs)
CreateVectorDatabaseEmbed(file_name, outcome) ==
    LET pending == jobs[file_name].pending
        batch == Take(pending, BatchSize)
    IN  /\ jobs[file_name].pc = "loop"
        /\ pending # <<>>
        /\ jobs' = [jobs EXCEPT
               ![file_name].pc = "add",
               ![file_name].staged = BatchEntries(batch, outcome, embedding_dim)]
        /\ UNCHANGED <<active_collections, collections, embedding_dim>>
        /\ lastAnswer' = NoAnswer
        /\ chatCall' = NoChatCall
        /\ UNCHANGED <<mgrVars, sideVars>>

\* one pass of the batch loop, second statement: collection.add(...).  It
\* raises when the collection has been deleted meanwhile or when the vectors
\* have another length than those already stored; create_vector_database
\* then raises without activating the document.
CreateVectorDatabaseAdd(file_name) ==
    LET name == sanitize_collection_name(file_name)
        pending == jobs[file_name].pending
        staged == jobs[file_name].staged
    IN  /\ jobs[file_name].pc = "add"
        /\ IF \/ collections[name] = NoCollection
              \/ DimensionMismatch(collections[name], staged[1].dimension)
           THEN /\ jobs' = [jobs EXCEPT ![file_name] = Idle]
                /\ UNCHANGED collections
           ELSE /\ collections' = [collections EXCEPT ![name].entries = @ \o staged]
                /\ jobs' = [jobs EXCEPT
                       ![file_name].pc = "loop",
                       ![file_name].staged = <<>>,
                       ![file_name].pending =
                           SubSeq(pending, Len(staged) + 1, Len(pending))]
        /\ UNCHANGED <<active_collections, embedding_dim>>
        /\ lastAnswer' = NoAnswer
        /\ chatCall' = NoChatCall
        /\ UNCHANGED <<mgrVars, sideVars>>

\* after the loop: self.active_collections[file_name] = collection_name, on
\* the ChatBot instance the call was made on (no longer the global one when
\* the settings were updated meanwhile)
CreateVectorDatabaseEnd(file_name) ==
    /\ jobs[file_name].pc = "loop"
    /\ jobs[file_name].pending = <<>>
    /\ active_collections' =
           IF jobs[file_name].stale THEN active_collections
           ELSE DictSet(active_collections, file_name,
                        sanitize_collection_name(file_name))
    /\ jobs' = [jobs EXCEPT ![file_name] = Idle]
    /\ UNCHANGED <<collections, embedding_dim>>
    /\ lastAnswer' = NoAnswer
    /\ chatCall' = NoChatCall
    /\ UNCHANGED <<mgrVars, sideVars>>

(***************************************************************************)
(* update_settings (main.py): chatbot = ChatBot().  The new instance has   *)
(* an empty active_collections over the same persistent Chroma store; the  *)
(* calls still running keep the instance they were made on.                *)
(***************************************************************************)
UpdateSettings ==
    /\ active_collections' = <<>>
    /\ jobs' = [d \in Docs |->
                   IF jobs[d].pc = "idle" THEN jobs[d]
                   ELSE [jobs[d] EXCEPT !.stale = TRUE]]
    /\ UNCHANGED <<collections, embedding_dim>>
    /\ lastAnswer' = NoAnswer
    /\ chatCall' = NoChatCall
    /\ UNCHANGED <<mgrVars, sideVars>>

(***************************************************************************)
(* remove_document                                                         *)
(***************************************************************************)
RemoveDocument(file_name) ==
    /\ IF DictHas(active_collections, file_name)
       THEN /\ collections' = [collections EXCEPT
                   ![DictGet(active_collections, file_name)] = NoCollection]
            /\ active_collections' = DictDel(active_collections, file_name)
       ELSE UNCHANGED <<collections, active_collections>>
    /\ chatCall' = [op |-> "remove_document", arg |-> file_name,
                    ret |-> DictHas(active_collections, file_name)]
    /\ UNCHANGED <<jobs, embedding_dim>>
    /\ lastAnswer' = NoAnswer
    /\ UNCHANGED <<mgrVars, sideVars>>

(***************************************************************************)
(* Retrieval: _search_relevant_chunks and _format_search_results           *)
(***************************************************************************)
\* squared L2 distance of two one-component vectors, in thousandths
Distance(a, b) == ((a - b) * (a - b)) \div 1000

RECURSIVE InsertByDistance(_, _)
\* x put after the last element whose distance is not greater (stable)
InsertByDistance(sorted, x) ==
    IF sorted = <<>> THEN <<x>>
    ELSE IF Head(sorted).distance <= x.distance
         THEN <<Head(sorted)>> \o InsertByDistance(Tail(sorted), x)
         ELSE <<x>> \o sorted

RECURSIVE SortByDistance(_)
\* list.sort(key=lambda x: x.get("distance", 1.0)): ascending and stable
SortByDistance(chunks) ==
    IF chunks = <<>> THEN <<>>
    ELSE InsertByDistance(SortByDistance(SubSeq(chunks, 1, Len(chunks) - 1)),
                          chunks[Len(chunks)])

\* collection.query(query_embeddings=[q], n_results=n) followed by
\* _format_search_results: the n nearest entries, nearest first, each with
\* its distance and similarity = 1.0 - distance.  `collection` (the name of
\* the collection the chunk was read from) is not a field of the code's
\* dict; the claims read it.
format_search_results(name, entries, question_embedding, n_results) ==
    LET scored == [i \in 1..Len(entries) |->
                      [file_name |-> entries[i].file_name,
                       page_number |-> entries[i].page_number,
                       distance |-> Distance(entries[i].embedding, question_embedding),
                       similarity |-> 1000 - Distance(entries[i].embedding,
                                                      question_embedding),
                       collection |-> name]]
    IN  Take(SortByDistance(scored), n_results)

RECURSIVE SearchAll_stopping_at_failure(_, _, _, _, _, _)
\* the loop over active_collections.items() without the inner try: the first
\* collection that is missing or whose query raises ends the loop
SearchAll_stopping_at_failure(items, n_active, stored, question_embedding, top_k, failing) ==
    IF items = <<>> THEN <<>>
    ELSE LET name == Head(items).value
         IN  IF stored[name] = NoCollection \/ name \in failing THEN <<>>
             ELSE format_search_results(name, stored[name].entries,
                                        question_embedding,
                                        Max(1, top_k \div n_active))
                  \o SearchAll_stopping_at_failure(Tail(items), n_active, stored,
                                                   question_embedding, top_k, failing)

RECURSIVE SearchAll(_, _, _, _, _, _)
\* the loop over active_collections.items(): a collection that is missing or
\* whose query raises is skipped
SearchAll(items, n_active, stored, question_embedding, top_k, failing) ==
    IF items = <<>> THEN <<>>
    ELSE LET name == Head(items).value
             found == IF stored[name] = NoCollection \/ name \in failing
                      THEN <<>>
                      ELSE format_search_results(name, stored[name].entries,
                                                 question_embedding,
                                                 Max(1, top_k \div n_active))
         IN  found \o SearchAll(Tail(items), n_active, stored, question_embedding,
                                top_k, failing)

\* the chunks found before the final sort and cut; raised when the query of
\* the one named collection raises (the outer except returns [])
SearchHits(active, stored, file_name, question_embedding, top_k, failing) ==
    IF file_name # None /\ DictHas(active, file_name)
    THEN LET name == DictGet(active, file_name)
         IN  IF stored[name] = NoCollection \/ name \in failing
             THEN [raised |-> TRUE, chunks |-> <<>>]
             ELSE [raised |-> FALSE,
                   chunks |-> format_search_results(name, stored[name].entries,
                                                    question_embedding, top_k)]
    ELSE [raised |-> FALSE,
          chunks |-> SearchAll(active, Len(active), stored, question_embedding,
                               top_k, failing)]

\* _search_relevant_chunks without the final cut to top_k
search_relevant_chunks_uncut(active, stored, file_name, question_embedding, top_k, failing) ==
    LET found ==
            SearchHits(active, stored, file_name, question_embedding, top_k, failing)
    IN  IF found.raised THEN <<>>
        ELSE SortByDistance(found.chunks)

\* _search_relevant_chunks(question, file_name, top_k)
search_relevant_chunks(active, stored, file_name, question_embedding, top_k, failing) ==
    LET found ==
            SearchHits(active, stored, file_name, question_embedding, top_k, failing)
    IN  IF found.raised THEN <<>>
        ELSE Take(SortByDistance(found.chunks), top_k)

(***************************************************************************)
(* Answer synthesis: _generate_answer_with_ai and answer_question          *)
(***************************************************************************)
\* round(num / den, 0) for den > 0, halves to the even neighbour
RoundDiv(num, den) ==
    LET q == num \div den
        r == num % den
    IN  IF 2 * r < den THEN q
        ELSE IF 2 * r > den THEN q + 1
        ELSE IF q % 2 = 0 THEN q ELSE q + 1

\* the sources list built from the chunks
Sources(relevant_chunks) ==
    [i \in 1..Len(relevant_chunks) |->
        [file_name |-> relevant_chunks[i].file_name,
         page_number |-> relevant_chunks[i].page_number,
         similarity |-> relevant_chunks[i].similarity]]

\* _generate_answer_with_ai dropping the sources when the generation fails
generate_answer_with_ai_without_sources(relevant_chunks, outcome) ==
    LET sources == Sources(relevant_chunks)
        generation == generate_text(Mgr, ChatTextModel, outcome, 0)
    IN  IF generation.out = "ok"
        THEN [kind |-> "answer",
              sources |-> sources,
              confidence |->
                  IF relevant_chunks # <<>>
                  THEN RoundDiv(SumSeq([i \in 1..Len(relevant_chunks) |->
                                           relevant_chunks[i].similarity]),
                                Len(relevant_chunks))
                  ELSE 0,
              generation |-> "ok"]
        ELSE [kind |-> "apology",
              sources |-> <<>>,
              confidence |-> 0,
              generation |-> "failed"]

\* _generate_answer_with_ai(question, relevant_chunks)
generate_answer_with_ai(relevant_chunks, outcome) ==
    LET sources == Sources(relevant_chunks)
        generation == generate_text(Mgr, ChatTextModel, outcome, 0)
    IN  IF generation.out = "ok"
        THEN [kind |-> "answer",
              sources |-> sources,
              confidence |->
                  IF relevant_chunks # <<>>
                  THEN RoundDiv(SumSeq([i \in 1..Len(relevant_chunks) |->
                                           relevant_chunks[i].similarity]),
                                Len(relevant_chunks))
                  ELSE 0,
              generation |-> "ok"]
        ELSE [kind |-> "apology",
              sources |-> sources,
              confidence |-> 0,
              generation |-> "failed"]

\* answer_question(question, file_name, top_k): the returned dict, with what
\* the claims read about the call
answer_question(active, stored, file_name, top_k, embedding_outcome, outcome, failures, env_dimension) ==
    LET question_embedding ==
            chat_generate_embeddings(<<QuestionEmbedding>>, embedding_outcome)[1]
        question_dimension == chat_embedding_dimension(embedding_outcome, env_dimension)
        \* the queries that raise: the failures of the store, and the
        \* collections holding vectors of another length than the question's
        failing == failures \cup
                   {name \in CollectionNames :
                       DimensionMismatch(stored[name], question_dimension)}
        hits == SearchHits(active, stored, file_name, question_embedding, top_k, failing)
        relevant_chunks ==
            search_relevant_chunks(active, stored, file_name, question_embedding,
                                   top_k, failing)
        answer == generate_answer_with_ai(relevant_chunks, outcome)
        index == IF file_name = None THEN NoCollection
                 ELSE stored[sanitize_collection_name(file_name)]
        call == [file_name |-> file_name,
                 top_k |-> top_k,
                 index_size |-> IF index.exists THEN Len(index.entries) ELSE -1,
                 n_hits |-> Len(hits.chunks),
                 relevant_chunks |-> relevant_chunks,
                 question_embedding |-> question_embedding,
                 failing |-> failing]
    IN  IF relevant_chunks = <<>>
        THEN [kind |-> "no_information", sources |-> <<>>, confidence |-> 0,
              generation |-> "not_called", call |-> call]
        ELSE [kind |-> answer.kind, sources |-> answer.sources,
              confidence |-> answer.confidence, generation |-> answer.generation,
              call |-> call]

TopKs == 1..MaxTopK

\* the collections whose query raises during one answer_question call
\* for a reason of the store: none, or the collection of docA
QueryFailures == {{}, {sanitize_collection_name("docA")}}

\* answer_question reads the state and changes none of it; lastAnswer is the
\* record of the one call observed.  Every other step clears the record, so
\* each state of the chat bot is reached with no call recorded, and the call
\* is observed from there (a call after a call would reach the same states).
AnswerQuestion(file_name, top_k, embedding_outcome, outcome, failing) ==
    /\ lastAnswer = NoAnswer
    /\ \E returned \in {answer_question(active_collections, collections, file_name,
                                         top_k, embedding_outcome, outcome, failing,
                                         embedding_dim)} :
          lastAnswer' = returned
    /\ chatCall' = NoChatCall
    /\ UNCHANGED <<active_collections, collections, jobs, embedding_dim>>
    /\ UNCHANGED <<mgrVars, sideVars>>

\* the manager as get_ai_manager() leaves it when the OpenAI provider registers
ManagerWithOpenAI ==
    register_provider(NewManager, "openai", "OpenAIAdapter",
                      "true", "true", "true", "ok").M

InitChatBot ==
    /\ providers = ManagerWithOpenAI.providers
    /\ current_provider = ManagerWithOpenAI.current_provider
    /\ current_text_model = ManagerWithOpenAI.current_text_model
    /\ current_embedding_model = ManagerWithOpenAI.current_embedding_model
    /\ usage_stats = ManagerWithOpenAI.usage_stats
    /\ mgrCall = NoCall
    /\ active_collections = <<>>
    /\ collections = [name \in CollectionNames |-> NoCollection]
    /\ jobs = [d \in Docs |-> Idle]
    /\ lastAnswer = NoAnswer
    /\ embedding_dim \in EmbeddingDimensions
    /\ chatCall = NoChatCall
    /\ InitServerVars
    /\ InitSideVars

\* the calls of the chat bot alone: the server's variables stay as they are
NextChatBot ==
    \/ \E file_name \in Docs :
            CreateVectorDatabaseBegin(file_name) /\ UNCHANGED srvVars
    \/ \E file_name \in Docs, outcome \in ChatOutcomes :
            CreateVectorDatabaseEmbed(file_name, outcome) /\ UNCHANGED srvVars
    \/ \E file_name \in Docs :
            CreateVectorDatabaseAdd(file_name) /\ UNCHANGED srvVars
    \/ \E file_name \in Docs :
            CreateVectorDatabaseEnd(file_name) /\ UNCHANGED srvVars
    \/ \E file_name \in Docs :
            RemoveDocument(file_name) /\ UNCHANGED srvVars
    \/ UpdateSettings /\ UNCHANGED srvVars
    \/ \E file_name \in Docs \cup {None}, top_k \in TopKs,
          embedding_outcome \in ChatOutcomes, outcome \in ChatOutcomes,
          failing \in QueryFailures :
            AnswerQuestion(file_name, top_k, embedding_outcome, outcome, failing)
            /\ UNCHANGED srvVars

SpecChatBot == InitChatBot /\ [][NextChatBot]_vars

(***************************************************************************)
(* Concurrent callers of the shared manager (manager.py has no lock).      *)
(* process_pdf_background runs in the server's thread pool, one thread per *)
(* upload, and every successful generate call ends in _update_usage_stats. *)
(* Each `counter += n` is a read of the counter followed by a write of the *)
(* sum; another thread can run between the two.  No thread switches the    *)
(* provider, so the provider that is current is the one that served.       *)
(***************************************************************************)
\* threads calling generate_text / generate_embeddings, one call each
MaxThreads == 2

Threads == 1..MaxThreads

\* the counters _update_usage_stats adds to, in the order of its statements
UsageCounters == <<"total_requests", "total_tokens_used",
                   "provider_requests", "provider_tokens_used">>

NotCalling == [pc |-> "idle", request_type |-> None, tokens_used |-> 0,
               served |-> None, counter |-> 0, loaded |-> 0]

\* the field of usage_stats a request of that type counts in
TotalField(request_type) ==
    IF request_type = "text" THEN "total_text_requests" ELSE "total_embedding_requests"

ProviderField(request_type) ==
    IF request_type = "text" THEN "text_requests" ELSE "embedding_requests"

\* the value of the counter the thread is at
CounterValue(U, th) ==
    IF UsageCounters[th.counter] = "total_requests"
    THEN U[TotalField(th.request_type)]
    ELSE IF UsageCounters[th.counter] = "total_tokens_used"
    THEN U.total_tokens_used
    ELSE IF UsageCounters[th.counter] = "provider_requests"
    THEN U.provider_stats[current_provider][ProviderField(th.request_type)]
    ELSE U.provider_stats[current_provider].tokens_used

\* the counter the thread is at, set to value
CounterSet(U, th, value) ==
    IF UsageCounters[th.counter] = "total_requests"
    THEN [U EXCEPT ![TotalField(th.request_type)] = value]
    ELSE IF UsageCounters[th.counter] = "total_tokens_used"
    THEN [U EXCEPT !.total_tokens_used = value]
    ELSE IF UsageCounters[th.counter] = "provider_requests"
    THEN [U EXCEPT !.provider_stats[current_provider][ProviderField(th.request_type)]
                       = value]
    ELSE [U EXCEPT !.provider_stats[current_provider].tokens_used = value]

\* what the statement adds to the counter
CounterIncrement(th) ==
    IF UsageCounters[th.counter] \in {"total_requests", "provider_requests"}
    THEN 1 ELSE th.tokens_used

\* generate_text / generate_embeddings up to a successful return of the
\* adapter: the thread is about to run _update_usage_stats
UsageBegin(t, request_type, tokens_used) ==
    /\ threads[t].pc = "idle"
    /\ get_current_provider(Mgr) # None
    /\ threads' = [threads EXCEPT ![t] =
                      [pc |-> "load", request_type |-> request_type,
                       tokens_used |-> tokens_used, served |-> current_provider,
                       counter |-> 1, loaded |-> 0]]
    /\ UNCHANGED <<mgrVars, chatVars, textCall>>

\* the read of `counter += n`
UsageLoad(t) ==
    /\ threads[t].pc = "load"
    /\ threads' = [threads EXCEPT ![t].pc = "store",
                                  ![t].loaded = CounterValue(usage_stats, threads[t])]
    /\ UNCHANGED <<mgrVars, chatVars, textCall>>

\* the write of `counter += n`, and on to the next statement
UsageStore(t) ==
    LET th == threads[t]
    IN  /\ th.pc = "store"
        /\ usage_stats' = CounterSet(usage_stats, th, th.loaded + CounterIncrement(th))
        /\ threads' = [threads EXCEPT
               ![t].pc = IF th.counter = Len(UsageCounters) THEN "done" ELSE "load",
               ![t].counter = IF th.counter = Len(UsageCounters) THEN @ ELSE @ + 1,
               ![t].loaded = 0]
        /\ UNCHANGED <<providers, current_provider, current_text_model,
                       current_embedding_model, mgrCall, chatVars, textCall>>

InitUsage ==
    /\ providers = ManagerWithOpenAI.providers
    /\ current_provider = ManagerWithOpenAI.current_provider
    /\ current_text_model = ManagerWithOpenAI.current_text_model
    /\ current_embedding_model = ManagerWithOpenAI.current_embedding_model
    /\ usage_stats = ManagerWithOpenAI.usage_stats
    /\ mgrCall = NoCall
    /\ InitChatVars
    /\ threads = [t \in Threads |-> NotCalling]
    /\ textCall = <<>>

NextUsage ==
    \/ \E t \in Threads, request_type \in {"text", "embedding"},
          tokens_used \in TokenCounts :
            UsageBegin(t, request_type, tokens_used)
    \/ \E t \in Threads : UsageLoad(t)
    \/ \E t \in Threads : UsageStore(t)

SpecUsage == InitUsage /\ [][NextUsage]_vars

(***************************************************************************)
(* Claims about the chat bot (checked under SpecChatBot).  lastAnswer is   *)
(* what the answer_question call that made the step returned; the call     *)
(* changes neither the store nor active_collections, so they are, in the   *)
(* same state, what the call has read.                                     *)
(***************************************************************************)
Answered == lastAnswer.kind # "none"

Target == lastAnswer.call.file_name

Retrieved == lastAnswer.call.relevant_chunks

\* C1: for every answer_question call with a non-null target document, every
\* retrieved chunk has been read from the target's own collection and every
\* source of the answer names the target, whether the target is active, was
\* never ingested, is being ingested for the first time, or has been removed.
C1_TargetedSearchReadsOnlyTarget ==
    (Answered /\ Target # None) =>
        /\ \A i \in 1..Len(Retrieved) :
              /\ Retrieved[i].collection = sanitize_collection_name(Target)
              /\ Retrieved[i].file_name = Target
        /\ \A i \in 1..Len(lastAnswer.sources) :
              lastAnswer.sources[i].file_name = Target

\* C2: an answer_question call whose target document has an empty or a
\* non-existent index returns the no-information message with no sources and
\* confidence 0, and the text provider is not called, whatever other
\* documents are active.
C2_EmptyIndexGivesNoInformation ==
    (Answered /\ Target # None /\ lastAnswer.call.index_size <= 0) =>
        /\ lastAnswer.kind = "no_information"
        /\ lastAnswer.sources = <<>>
        /\ lastAnswer.confidence = 0
        /\ lastAnswer.generation = "not_called"

\* C3: answer_question always returns an answer to its caller (the
\* no-information message, a generated answer or the apology); when the
\* retrieval returned at least one chunk and the text generation failed, the
\* answer is the apology with confidence 0 and one source per retrieved
\* chunk, in the order of the chunks.
C3_GenerationFailureGivesApology ==
    Answered =>
        /\ lastAnswer.kind \in {"no_information", "answer", "apology"}
        /\ (Retrieved = <<>>) <=> (lastAnswer.kind = "no_information")
        /\ (Retrieved # <<>> /\ lastAnswer.generation = "failed") =>
              /\ lastAnswer.kind = "apology"
              /\ lastAnswer.confidence = 0
              /\ Len(lastAnswer.sources) = Len(Retrieved)
              /\ \A i \in 1..Len(Retrieved) :
                    /\ lastAnswer.sources[i].file_name = Retrieved[i].file_name
                    /\ lastAnswer.sources[i].page_number = Retrieved[i].page_number

\* C3 witness: the generation has failed after two chunks were retrieved and
\* the apology carries both sources.
C3_Witness ==
    /\ lastAnswer.kind = "apology"
    /\ lastAnswer.generation = "failed"
    /\ Len(Retrieved) = 2
    /\ Len(lastAnswer.sources) = 2

\* C4: for every top_k = K >= 1, any number of active documents and any
\* target, the retrieval returns at most K chunks, in the order of
\* non-decreasing distance (non-increasing similarity).
C4_AtMostTopKSortedByDistance ==
    Answered =>
        /\ lastAnswer.call.top_k >= 1
        /\ Len(Retrieved) <= lastAnswer.call.top_k
        /\ \A i \in 1..Len(Retrieved), j \in 1..Len(Retrieved) :
              i < j => /\ Retrieved[i].distance <= Retrieved[j].distance
                       /\ Retrieved[i].similarity >= Retrieved[j].similarity

\* C4 witness: a search of all documents found more chunks than top_k, in
\* another order than that of the distances, and top_k of them are returned.
C4_Witness ==
    /\ Answered
    /\ Target = None
    /\ Len(active_collections) = 2
    /\ lastAnswer.call.n_hits > lastAnswer.call.top_k
    /\ Len(Retrieved) = lastAnswer.call.top_k
    /\ LET found == SearchHits(active_collections, collections, None,
                               QuestionEmbedding, lastAnswer.call.top_k, {}).chunks
       IN  /\ Len(found) = lastAnswer.call.n_hits
           /\ found[1].distance > found[Len(found)].distance

\* C5: every answer returned by answer_question carries a confidence within
\* [0, 1] (in thousandths: 0..1000), whatever distances the index reports.
C5_ConfidenceWithinUnitInterval ==
    Answered => (lastAnswer.confidence >= 0 /\ lastAnswer.confidence <= 1000)


(***************************************************************************)
(* Claims about the provider manager (checked under SpecManager).          *)
(* mgrCall' describes the call that makes the step, so a statement about   *)
(* one call is a statement about one step.                                 *)
(***************************************************************************)
SelectionUnchanged ==
    /\ current_provider' = current_provider
    /\ current_text_model' = current_text_model
    /\ current_embedding_model' = current_embedding_model

RegistryUnchanged ==
    /\ providers' = providers
    /\ usage_stats' = usage_stats

\* C6: whenever register_provider(name, adapter) returns false, the call has
\* registered nothing: providers, provider_stats, current_provider and the
\* current models are what they were before the call.
C6_FailedRegistrationChangesNothing ==
    [][(mgrCall'.op = "register_provider" /\ mgrCall'.ret = "false")
         => (RegistryUnchanged /\ SelectionUnchanged)]_vars

\* C7: whenever register_provider(name, adapter) returns true and no provider
\* was current before the call, current_provider is name after it.
C7_FirstRegisteredBecomesCurrent ==
    [][(mgrCall'.op = "register_provider" /\ mgrCall'.ret = "true"
          /\ current_provider = None)
         => current_provider' = mgrCall'.arg[1]]_vars

C9_FailedSetTextModelKeepsSelection ==
    [][(mgrCall'.op = "set_text_model" /\ mgrCall'.ret = "false")
         => SelectionUnchanged]_vars

\* C10: for a composite spec p:m, set_text_model / set_embedding_model return
\* true only if m is in provider p's own catalog with the required type, and
\* after a true return the current provider is p.
C10_CompositeSpecSelectsItsProvider ==
    [][(mgrCall'.op \in {"set_text_model", "set_embedding_model"}
          /\ HasColon(mgrCall'.arg) /\ mgrCall'.ret = "true")
         => LET p == SplitProvider(mgrCall'.arg)
                m == SplitModel(mgrCall'.arg)
                type == IF mgrCall'.op = "set_text_model" THEN "text"
                        ELSE "embedding"
            IN  /\ Registered(Mgr, p)
                /\ ModelsMatching(get_available_models(providers[p[1]]), type, m) # <<>>
                /\ current_provider' = p[1]]_vars

GenerateOps == {"generate_text", "generate_embeddings"}

\* C11: whenever generate_text or generate_embeddings raises (no current
\* provider, no model set, or the adapter fails), every usage counter, total
\* and per provider, has after the call the value it had before it.
C11_FailedGenerateKeepsUsageStats ==
    [][(mgrCall'.op \in GenerateOps /\ mgrCall'.ret = "raised")
         => usage_stats' = usage_stats]_vars

\* C11 witness: after a call was counted, a call failed in the adapter and
\* the counters are those of the one counted call.
C11_Witness ==
    /\ mgrCall.op \in GenerateOps
    /\ mgrCall.ret = "raised"
    /\ mgrCall.error.cause = "RateLimitError"
    /\ current_provider # None
    /\ TotalRequests(usage_stats) = 1
    /\ usage_stats.provider_stats[current_provider].tokens_used > 0

(***************************************************************************)
(* Claims about concurrent calls (checked under SpecUsage).                *)
(***************************************************************************)
RECURSIVE SumOver(_, _)
\* the sum of f[t] over the threads of S
SumOver(f, S) ==
    IF S = {} THEN 0
    ELSE LET t == CHOOSE x \in S : TRUE IN f[t] + SumOver(f, S \ {t})

Finished(request_types, p) ==
    {t \in Threads : /\ threads[t].pc = "done"
                     /\ threads[t].request_type \in request_types
                     /\ threads[t].served = p}

\* C12: whenever no call is inside _update_usage_stats, the total and the
\* per-provider request counts and token totals equal the sums over the
\* successful calls made so far, each counted for the provider that served
\* it: no update of a concurrent call is lost.
C12_ConcurrentUpdatesAllCounted ==
    (\A t \in Threads : threads[t].pc \in {"idle", "done"}) =>
        LET tokens == [t \in Threads |-> threads[t].tokens_used]
            served == {p \in ProviderNames : providers[p] # None}
        IN  /\ usage_stats.total_text_requests
                  = SumOver([p \in served |-> Cardinality(Finished({"text"}, p))], served)
            /\ usage_stats.total_embedding_requests
                  = SumOver([p \in served |-> Cardinality(Finished({"embedding"}, p))],
                            served)
            /\ usage_stats.total_tokens_used
                  = SumOver([p \in served |->
                                SumOver(tokens, Finished({"text", "embedding"}, p))],
                            served)
            /\ \A p \in served :
                  /\ usage_stats.provider_stats[p].text_requests
                        = Cardinality(Finished({"text"}, p))
                  /\ usage_stats.provider_stats[p].embedding_requests
                        = Cardinality(Finished({"embedding"}, p))
                  /\ usage_stats.provider_stats[p].tokens_used
                        = SumOver(tokens, Finished({"text", "embedding"}, p))

(***************************************************************************)
(* Claims about the adapter's errors (checked under SpecManager).          *)
(* generate_text / generate_embeddings leave the selection as it is, so    *)
(* the state after the call shows the adapter and the model it was given.  *)
(***************************************************************************)
RequestType == IF mgrCall.op = "generate_text" THEN "text" ELSE "embedding"

\* the model the manager passes to the adapter
RequestedModel ==
    IF mgrCall.arg[1] # None THEN mgrCall.arg[1]
    ELSE IF mgrCall.op = "generate_text" THEN current_text_model
    ELSE current_embedding_model

\* the last call has reached the OpenAI adapter
ReachedOpenAI ==
    /\ mgrCall.op \in GenerateOps
    /\ current_provider # None
    /\ providers[current_provider] = "OpenAIAdapter"
    /\ RequestedModel # None

\* ... with a model that its catalog does not list for the capability
UnsupportedRequest ==
    /\ ReachedOpenAI
    /\ ModelsMatching(get_available_models("OpenAIAdapter"), RequestType,
                      <<RequestedModel>>) = <<>>

\* C13 as stated: a request to the OpenAI adapter naming a model that is not
\* in the static catalog for the capability fails with UnsupportedModelError
\* and the endpoint is not called, whatever the initialization state.
C13_UnsupportedModelRejected ==
    UnsupportedRequest =>
        /\ mgrCall.ret = "raised"
        /\ mgrCall.error.cause = "UnsupportedModelError"
        /\ ~mgrCall.endpoint

\* C13 amended: such a request always fails without a call of the endpoint;
\* the adapter raises UnsupportedModelError when it is initialized and
\* ProviderConnectionError (the initialization check comes first) when it
\* is not.
C13_UnsupportedModelRejectedWhenInitialized ==
    UnsupportedRequest =>
        /\ mgrCall.ret = "raised"
        /\ ~mgrCall.endpoint
        /\ mgrCall.error.cause =
              IF mgrCall.env[1] = "not_initialized" THEN "ProviderConnectionError"
              ELSE "UnsupportedModelError"

\* C13 witness: generate_embeddings was asked for a text model on an
\* initialized adapter whose endpoint would have answered.
C13_Witness ==
    /\ UnsupportedRequest
    /\ mgrCall.op = "generate_embeddings"
    /\ mgrCall.arg = <<"gpt-4">>
    /\ mgrCall.env = <<"ok">>
    /\ mgrCall.error.cause = "UnsupportedModelError"
    /\ ~mgrCall.endpoint

AdapterErrors == {"RateLimitError", "ProviderConnectionError", "UnsupportedModelError"}

\* C14: when the adapter fails, the error the manager raises to its caller
\* carries the provider that served the call, and it is an error of the
\* adapter's failure kind (RateLimitError, ProviderConnectionError or
\* UnsupportedModelError), so that a caller tells the three apart.
C14_RaisedErrorKeepsProviderAndKind ==
    (mgrCall.op \in GenerateOps /\ mgrCall.ret = "raised"
       /\ mgrCall.error.cause \in AdapterErrors) =>
        /\ mgrCall.error.provider = current_provider
        /\ mgrCall.error.class = mgrCall.error.cause

(***************************************************************************)
(* Claims about the index of a document (checked under SpecChatBot).       *)
(***************************************************************************)
\* the step is the successful return of create_vector_database(d)
Returns(d) ==
    /\ jobs[d].pc = "loop"
    /\ jobs[d].pending = <<>>
    /\ jobs'[d].pc = "idle"

\* the step is the collection.add of create_vector_database(d)
Adds(d) ==
    /\ jobs[d].pc = "add"
    /\ jobs'[d].pc # "add"

Ids(entries) == [i \in 1..Len(entries) |-> entries[i].id]

\* the vectors are the substitute of a failed embedding call
ZeroVectors(entries) == \E i \in 1..Len(entries) : entries[i].embedding = ZeroVector

\* C15: when create_vector_database for document D returns successfully, the
\* collection of D exists and holds exactly the eligible chunks of this
\* ingestion, each once, and nothing of an earlier ingestion of D.
C15_IndexHoldsExactlyThisIngestion ==
    [][\A d \in Docs :
          Returns(d) =>
              LET index == collections'[sanitize_collection_name(d)]
              IN  /\ index.exists
                  /\ Ids(index.entries) = Ids(Documents(d, ExtractedPages(d)))]_vars

\* C16: when the embedding generation has failed for a batch of an ingestion,
\* the ingestion is not aborted: the batch is stored, each chunk under its
\* own identifier with a zero vector of the dimension of the vectors stored
\* for the other batches of the index, and the batches after it are stored.
C16_FailedEmbeddingBatchIsStored ==
    [][\A d \in Docs :
          LET name == sanitize_collection_name(d)
              staged == jobs[d].staged
          IN  (/\ Adds(d)
               /\ collections[name].exists
               /\ ZeroVectors(staged) \/ ZeroVectors(collections[name].entries))
              => /\ jobs'[d].pc = "loop"
                 /\ collections'[name].entries = collections[name].entries \o staged
                 /\ \A i \in 1..Len(collections'[name].entries) :
                       collections'[name].entries[i].dimension
                           = collections'[name].entries[1].dimension]_vars

\* C17: after remove_document for a document has completed, no collection
\* for that document exists in the store, whatever the state was when the
\* removal was requested (also after the ChatBot was created anew).
C17_RemovedDocumentHasNoIndex ==
    chatCall.op = "remove_document" =>
        ~collections[sanitize_collection_name(chatCall.arg)].exists

(***************************************************************************)
(* File names given to _sanitize_collection_name: every string of up to    *)
(* MaxNameLen characters of NameAlphabet (' ' stands for any character     *)
(* outside [a-zA-Z0-9._-]), and names that take the other branches.        *)
(***************************************************************************)
MaxNameLen == 3

NameAlphabet == {"a", "b", "_", " "}

RECURSIVE Strings(_, _)
Strings(alphabet, n) ==
    IF n = 0 THEN {<<>>}
    ELSE LET shorter == Strings(alphabet, n - 1)
         IN  shorter \cup {Append(s, c) : s \in {t \in shorter : Len(t) = n - 1},
                                          c \in alphabet}

\* the shortest name whose prefixed form is longer than 100 characters
LongNameLen == 100 - Len(doc_) + 1

OtherNames ==
    { <<"a", "b", ".", "p", "d", "f">>,            \* 'ab.pdf'
      <<"a", "b", "a", ".", "p", "d", "f">>,       \* 'aba.pdf'
      <<"a", ".", "p", "d", "f", "b", "a">>,       \* 'a.pdfba'
      <<"a", "b", ".">>,                           \* ends with '.'
      <<"a", "b", "-">>,                           \* ends with '-'
      <<".", "a", "b">>,                           \* starts with '.'
      <<"a", "-", "b">>,
      <<"#", "a", "b", "a">>,
      Repeat(<<"a">>, LongNameLen),                \* 'doc_' + name has 101 characters
      Repeat(<<"a">>, LongNameLen) \o <<"b">>,
      Repeat(<<"a", " ">>, LongNameLen) }

FileNames == (Strings(NameAlphabet, MaxNameLen) \ {<<>>}) \cup OtherNames

\* one call of _sanitize_collection_name
SanitizeCollectionName(file_name) ==
    /\ Len(textCall) < 2
    /\ textCall' = Append(textCall,
                          [op   |-> "_sanitize_collection_name",
                           arg  |-> file_name,
                           ret  |-> _sanitize_collection_name(file_name),
                           hash |-> HashFallback(file_name)])
    /\ UNCHANGED <<mgrVars, chatVars, threads>>

InitSanitize ==
    /\ SetMgrInit
    /\ mgrCall = NoCall
    /\ InitChatVars
    /\ InitSideVars

NextSanitize == \E file_name \in FileNames : SanitizeCollectionName(file_name)

SpecSanitize == InitSanitize /\ [][NextSanitize]_vars

SanitizeCalls == {i \in 1..Len(textCall) : textCall[i].op = "_sanitize_collection_name"}

\* C18: _sanitize_collection_name gives the same name each time it is called
\* with the same file name; the name has only characters of [A-Za-z0-9._-],
\* starts with 'doc_', ends with a letter or a digit and has at most 100
\* characters.
C18_CollectionNameIsWellFormed ==
    /\ \A i \in SanitizeCalls :
          LET name == textCall[i].ret
          IN  /\ Range(name) \subseteq SafeCharacters
              /\ Len(name) >= Len(doc_)
              /\ SubSeq(name, 1, Len(doc_)) = doc_
              /\ name[Len(name)] \in AlphaNumeric
              /\ Len(name) <= 100
    /\ \A i, j \in SanitizeCalls :
          textCall[i].arg = textCall[j].arg => textCall[i].ret = textCall[j].ret

\* the same name was given twice, a name whose cleaned form ends with '.'
\* or '-', or one that is longer than the limit
C18_Witness ==
    /\ Len(textCall) = 2
    /\ textCall[1].arg = textCall[2].arg
    /\ \/ ~StartsAndEndsAlphaNumeric(limited_name(textCall[1].arg))
       \/ Len(prefixed_name(textCall[1].arg)) > 100

\* C19: two different file names get the same collection name only when the
\* name holds a digest (the hash fallback); two different file names that
\* both take the branch without a digest get different names.
C19_CollisionOnlyThroughHash ==
    \A i, j \in SanitizeCalls :
        (textCall[i].arg # textCall[j].arg /\ textCall[i].ret = textCall[j].ret)
            => (textCall[i].hash /\ textCall[j].hash)

(***************************************************************************)
(* AIProcessor._split_text_into_chunks.  The splitter is langchain's       *)
(* RecursiveCharacterTextSplitter with the arguments of ai_processor.py    *)
(* (length_function=len, the five separators) and the library's defaults   *)
(* (keep_separator=True, is_separator_regex=False, strip_whitespace=True); *)
(* its constructor raises when chunk_overlap > chunk_size.                 *)
(***************************************************************************)
\* the characters str.strip() removes
Whitespace == {" ", "\n", "\t"}

separators == << <<"\n", "\n">>, <<"\n">>, <<".", " ">>, <<" ">>, <<>> >>

\* re.search(re.escape(separator), text)
Contains(text, separator) == \E i \in 1..Len(text) : OccursAt(text, separator, i)

\* the pieces of text between the occurrences of a non-empty separator
RECURSIVE split(_, _, _)
split(text, separator, piece) ==
    IF OccursAt(text, separator, 1)
    THEN <<piece>> \o split(SubSeq(text, Len(separator) + 1, Len(text)), separator, <<>>)
    ELSE IF text = <<>> THEN <<piece>>
         ELSE split(Tail(text), separator, Append(piece, Head(text)))

\* ''.join(docs)
RECURSIVE join(_)
join(docs) == IF docs = <<>> THEN <<>> ELSE Head(docs) \o join(Tail(docs))

NonEmpty(s) == s # <<>>

\* _split_text_with_regex(text, separator, keep_separator=True): each
\* separator stays at the start of the piece that follows it
split_text_with_regex(text, separator) ==
    IF separator = <<>>
    THEN [i \in 1..Len(text) |-> <<text[i]>>]
    ELSE LET pieces == split(text, separator, <<>>)
             splits == [i \in 1..Len(pieces) |->
                           IF i = 1 THEN pieces[1] ELSE separator \o pieces[i]]
         IN  SelectSeq(splits, NonEmpty)

\* _join_docs(docs, ''): no document (None) when nothing but whitespace is left
join_docs(docs) ==
    LET text == strip(join(docs), Whitespace)
    IN  IF text = <<>> THEN <<>> ELSE <<text>>

\* the while loop of _merge_splits: splits leave current_doc from the front
\* until what is left fits the overlap and the next split fits the chunk
RECURSIVE drop_front(_, _, _, _, _)
drop_front(current_doc, total, len, chunk_size, chunk_overlap) ==
    IF total > chunk_overlap \/ (total + len > chunk_size /\ total > 0)
    THEN drop_front(Tail(current_doc), total - Len(Head(current_doc)), len,
                    chunk_size, chunk_overlap)
    ELSE [current_doc |-> current_doc, total |-> total]

RECURSIVE merge_loop(_, _, _, _, _, _)
merge_loop(splits, docs, current_doc, total, chunk_size, chunk_overlap) ==
    IF splits = <<>> THEN docs \o join_docs(current_doc)
    ELSE LET d == Head(splits)
             full == total + Len(d) > chunk_size /\ Len(current_doc) > 0
             kept == IF full
                     THEN drop_front(current_doc, total, Len(d), chunk_size, chunk_overlap)
                     ELSE [current_doc |-> current_doc, total |-> total]
         IN  merge_loop(Tail(splits),
                        IF full THEN docs \o join_docs(current_doc) ELSE docs,
                        Append(kept.current_doc, d),
                        kept.total + Len(d),
                        chunk_size, chunk_overlap)

\* _merge_splits(splits, ''): the separator, kept in the splits, has length 0
merge_splits(splits, chunk_size, chunk_overlap) ==
    merge_loop(splits, <<>>, <<>>, 0, chunk_size, chunk_overlap)

RECURSIVE _split_text(_, _, _, _)
RECURSIVE split_loop(_, _, _, _, _)
\* RecursiveCharacterTextSplitter._split_text(text, separators)
_split_text(text, seps, chunk_size, chunk_overlap) ==
    LET found == {i \in 1..Len(seps) : seps[i] = <<>> \/ Contains(text, seps[i])}
        first == IF found = {} THEN Len(seps)
                 ELSE CHOOSE i \in found : \A j \in found : i <= j
        separator == seps[first]
        new_separators == IF found = {} \/ separator = <<>> THEN <<>>
                          ELSE SubSeq(seps, first + 1, Len(seps))
    IN  split_loop(split_text_with_regex(text, separator), <<>>, new_separators,
                   chunk_size, chunk_overlap)

\* the loop over the splits: short splits are collected and merged, a long
\* one is split again with the separators that are left
split_loop(splits, good_splits, new_separators, chunk_size, chunk_overlap) ==
    LET merged == IF good_splits = <<>> THEN <<>>
                  ELSE merge_splits(good_splits, chunk_size, chunk_overlap)
    IN  IF splits = <<>> THEN merged
        ELSE LET s == Head(splits)
             IN  IF Len(s) < chunk_size
                 THEN split_loop(Tail(splits), Append(good_splits, s), new_separators,
                                 chunk_size, chunk_overlap)
                 ELSE merged
                      \o (IF new_separators = <<>> THEN <<s>>
                          ELSE _split_text(s, new_separators, chunk_size, chunk_overlap))
                      \o split_loop(Tail(splits), <<>>, new_separators,
                                    chunk_size, chunk_overlap)

\* the except branch: [text[i:i+chunk_size] for i in range(0, len(text), chunk_size)]
slices(text, chunk_size) ==
    [k \in 1..((Len(text) + chunk_size - 1) \div chunk_size) |->
        SubSeq(text, (k - 1) * chunk_size + 1, Min(k * chunk_size, Len(text)))]

_split_text_into_chunks(text, chunk_size, chunk_overlap) ==
    IF chunk_overlap > chunk_size
    THEN slices(text, chunk_size)
    ELSE LET chunks == _split_text(text, separators, chunk_size, chunk_overlap)
             stripped == [i \in 1..Len(chunks) |-> strip(chunks[i], Whitespace)]
         IN  SelectSeq(stripped, NonEmpty)

(***************************************************************************)
(* Texts of up to MaxTextLen characters, and the configured CHUNK_SIZE and *)
(* CHUNK_OVERLAP.                                                          *)
(***************************************************************************)
MaxTextLen == 3

TextAlphabet == {"a", " ", "\n", "."}

Texts == Strings(TextAlphabet, MaxTextLen)

ChunkSizes == {2, MaxTextLen, MaxTextLen + 1}

ChunkOverlaps == {0, 1, MaxTextLen}

\* one call of _split_text_into_chunks
SplitTextIntoChunks(text, chunk_size, chunk_overlap) ==
    /\ textCall = <<>>
    /\ textCall' = <<[op            |-> "_split_text_into_chunks",
                      arg           |-> text,
                      chunk_size    |-> chunk_size,
                      chunk_overlap |-> chunk_overlap,
                      ret           |-> _split_text_into_chunks(text, chunk_size,
                                                                chunk_overlap)]>>
    /\ UNCHANGED <<mgrVars, chatVars, threads>>

InitSplit ==
    /\ SetMgrInit
    /\ mgrCall = NoCall
    /\ InitChatVars
    /\ InitSideVars

NextSplit ==
    \E text \in Texts, chunk_size \in ChunkSizes, chunk_overlap \in ChunkOverlaps :
        SplitTextIntoChunks(text, chunk_size, chunk_overlap)

SpecSplit == InitSplit /\ [][NextSplit]_vars

SplitCalls == {i \in 1..Len(textCall) : textCall[i].op = "_split_text_into_chunks"}

\* C20: for a text T that is not empty after trimming and has
\* len(T) <= chunk_size, _split_text_into_chunks(T) returns the list [T],
\* also when T starts or ends with whitespace.
C20_ShortTextIsOneChunk ==
    \A i \in SplitCalls :
        (/\ strip(textCall[i].arg, Whitespace) # <<>>
         /\ Len(textCall[i].arg) <= textCall[i].chunk_size)
            => textCall[i].ret = <<textCall[i].arg>>

\* the model is one of the given type in the catalog of the current provider
InCurrentCatalog(type, model) ==
    /\ current_provider # None
    /\ providers[current_provider] # None
    /\ ModelsMatching(get_available_models(providers[current_provider]),
                      type, <<model>>) # <<>>

\* C26: after any sequence of register_provider, switch_provider,
\* set_text_model and set_embedding_model calls, current_provider is unset or
\* registered, and current_text_model / current_embedding_model is unset or
\* a model of its type in the catalog of the current provider.
C26_SelectionIsConsistent ==
    /\ current_provider # None => providers[current_provider] # None
    /\ current_text_model # None => InCurrentCatalog("text", current_text_model)
    /\ current_embedding_model # None
          => InCurrentCatalog("embedding", current_embedding_model)

\* sum of one counter over the registered providers
RECURSIVE SumStats(_, _, _)
SumStats(U, names, field) ==
    IF names = {} THEN 0
    ELSE LET n == CHOOSE x \in names : TRUE
             own == IF U.provider_stats[n] = NoStats THEN 0
                    ELSE U.provider_stats[n][field]
         IN  own + SumStats(U, names \ {n}, field)

\* C27: after any sequence of registrations, provider switches and generate
\* calls, each total counter is the sum of the providers' counters.
C27_TotalsAreSumsOfProviders ==
    /\ usage_stats.total_text_requests
          = SumStats(usage_stats, ProviderNames, "text_requests")
    /\ usage_stats.total_embedding_requests
          = SumStats(usage_stats, ProviderNames, "embedding_requests")
    /\ usage_stats.total_tokens_used
          = SumStats(usage_stats, ProviderNames, "tokens_used")

\* the collection of the i-th active document can be queried by the call
Queryable(i) ==
    /\ collections[active_collections[i].value].exists
    /\ active_collections[i].value \notin lastAnswer.call.failing

\* the hits of the i-th active document: its max(1, top_k // N) nearest entries
IndexHits(i) ==
    IF Queryable(i)
    THEN format_search_results(active_collections[i].value,
                               collections[active_collections[i].value].entries,
                               lastAnswer.call.question_embedding,
                               Max(1, lastAnswer.call.top_k \div Len(active_collections)))
    ELSE <<>>

\* C24: without a target document and with N >= 1 active documents, the
\* chunks found are the top_k nearest of the concatenation of the hits of the
\* active indexes that can be queried, max(1, top_k // N) from each; an index
\* that is missing or whose query fails adds nothing and the others still
\* contribute.
C24_UntargetedSearchMergesIndexes ==
    (Answered /\ Target = None /\ Len(active_collections) >= 1) =>
        Retrieved =
            Take(SortByDistance(join([i \in 1..Len(active_collections) |-> IndexHits(i)])),
                 lastAnswer.call.top_k)

\* two active documents, the index of the first cannot be queried, and
\* chunks of the second are found
C24_Witness ==
    /\ Answered
    /\ Target = None
    /\ Len(active_collections) = 2
    /\ ~Queryable(1)
    /\ Queryable(2)
    /\ Retrieved # <<>>

\* the step is the preparation of the documents of create_vector_database(d)
Prepares(d) ==
    /\ jobs[d].pc = "idle"
    /\ jobs'[d].pc = "loop"

\* the ids of the chunks of d whose trimmed length is length or more
ChunkIdsOfLength(d, length) ==
    {<<d, ExtractedPages(d)[p].page_number, i - 1>> :
        <<p, i>> \in {x \in (1..Len(ExtractedPages(d))) \X (1..3) :
                        /\ x[2] <= Len(ExtractedPages(d)[x[1]].chunks)
                        /\ ExtractedPages(d)[x[1]].chunks[x[2]].length >= length}}

\* C25: create_vector_database leaves a page chunk out of the index exactly
\* when its trimmed length is below 50: the chunks handed to the index are
\* those of 50 characters or more.
C25_ChunksOfThresholdLengthAreIndexed ==
    [][\A d \in Docs :
          Prepares(d) =>
              Range(Ids(jobs'[d].pending)) = ChunkIdsOfLength(d, MinChunkLength)]_vars

\* get_available_documents(): list(self.active_collections.keys())
get_available_documents(active) == [i \in 1..Len(active) |-> active[i].key]

\* d is listed and a query that targets d finds its collection
Available(d) ==
    /\ d \in Range(get_available_documents(active_collections))
    /\ collections[DictGet(active_collections, d)].exists

\* the step is remove_document(d)
Removes(d) ==
    /\ chatCall'.op = "remove_document"
    /\ chatCall'.arg = d

\* C28: a document whose ingestion completed stays available for question
\* answering (listed, and its index found by a targeted query) through every
\* step that neither deletes nor ingests it again: a settings update, the
\* ingestion or the deletion of another document, a question.
C28_IngestedDocumentStaysAvailable ==
    [][\A d \in Docs :
          (Available(d) /\ ~Removes(d) /\ ~Prepares(d)) => Available(d)']_vars

(***************************************************************************)
(* The server (main.py): upload_pdf, process_pdf_background, delete_file.  *)
(* A file is named by its stem.  process_pdf_background is a plain         *)
(* function, so the server runs each call in a thread of its pool: the     *)
(* statements of the jobs of different files, and the delete_file handler, *)
(* interleave.  pdf_processor, ai_processor and chatbot are initialized.   *)
(* A file is uploaded again only when no job of it is queued or running    *)
(* (one job per file at a time).                                           *)
(***************************************************************************)
\* two files whose names differ in one character
ServerFiles == {"doc A", "doc_A"}

\* tasks[f]: pc is the position of process_pdf_background(f); extraction,
\* curriculum, vector_db are what the three steps of the last job did
NoTask == [pc |-> "none", extraction |-> "none", curriculum |-> "none",
           vector_db |-> "none"]

QueuedTask == [NoTask EXCEPT !.pc = "queued"]

\* a job of the file is queued or running
Running(f) == tasks[f].pc \notin {"none", "done"}

\* what a step of the job (extract_pdf_content, create_curriculum) does
StepOutcomes == {"ok", "raise"}

chatBotVars == <<active_collections, collections, jobs, lastAnswer, embedding_dim,
                 chatCall>>

\* upload_pdf, for one file: the file is written, the status entry is set to
\* 'uploaded' and process_pdf_background is added to the background tasks
UploadPdf(f) ==
    /\ ~Running(f)
    /\ uploads' = uploads \cup {f}
    /\ file_processing_status' = [file_processing_status EXCEPT ![f] = "uploaded"]
    /\ tasks' = [tasks EXCEPT ![f] = QueuedTask]
    /\ UNCHANGED <<chatbot, chatBotVars, mgrVars, sideVars>>

\* process_pdf_background: the status entry is set to 'processing'
TaskStart(f) ==
    /\ tasks[f].pc = "queued"
    /\ file_processing_status' = [file_processing_status EXCEPT ![f] = "processing"]
    /\ tasks' = [tasks EXCEPT ![f].pc = "extract"]
    /\ UNCHANGED <<chatbot, uploads, chatBotVars, mgrVars, sideVars>>

\* the except branch without the assignment of 'failed'
TaskFails_keeping_status(f, step) ==
    /\ UNCHANGED file_processing_status
    /\ tasks' = [tasks EXCEPT ![f].pc = "done", ![f][step] = "raised"]

\* the step raised: the except branch sets the status entry to 'failed'
TaskFails(f, step) ==
    /\ file_processing_status' = [file_processing_status EXCEPT ![f] = "failed"]
    /\ tasks' = [tasks EXCEPT ![f].pc = "done", ![f][step] = "raised"]

\* pdf_processor.extract_pdf_content(file_path); it raises when the file is
\* no longer in the upload folder
TaskExtract(f, outcome) ==
    /\ tasks[f].pc = "extract"
    /\ outcome = "ok" => f \in uploads
    /\ IF outcome = "ok"
       THEN /\ tasks' = [tasks EXCEPT ![f].pc = "curriculum", ![f].extraction = "ok"]
            /\ UNCHANGED file_processing_status
       ELSE TaskFails(f, "extraction")
    /\ UNCHANGED <<chatbot, uploads, chatBotVars, mgrVars, sideVars>>

\* ai_processor.create_curriculum(extracted_data)
TaskCurriculum(f, outcome) ==
    /\ tasks[f].pc = "curriculum"
    /\ IF outcome = "ok"
       THEN /\ tasks' = [tasks EXCEPT ![f].pc = "vector_db", ![f].curriculum = "ok"]
            /\ UNCHANGED file_processing_status
       ELSE TaskFails(f, "curriculum")
    /\ UNCHANGED <<chatbot, uploads, chatBotVars, mgrVars, sideVars>>

\* if chatbot: chatbot.create_vector_database(extracted_data), up to the
\* batch loop
TaskVectorBegin(f) ==
    /\ tasks[f].pc = "vector_db"
    /\ chatbot # None
    /\ CreateVectorDatabaseBegin(f)
    /\ tasks' = [tasks EXCEPT ![f].pc = "batches"]
    /\ UNCHANGED <<chatbot, uploads, file_processing_status>>

\* there is no chatbot: create_vector_database is not called and the status
\* entry is set to 'completed'
TaskVectorSkip(f) ==
    /\ tasks[f].pc = "vector_db"
    /\ chatbot = None
    /\ file_processing_status' = [file_processing_status EXCEPT ![f] = "completed"]
    /\ tasks' = [tasks EXCEPT ![f].pc = "done"]
    /\ UNCHANGED <<chatbot, uploads, chatBotVars, mgrVars, sideVars>>

\* the batch loop: _generate_embeddings
TaskVectorEmbed(f, outcome) ==
    /\ tasks[f].pc = "batches"
    /\ CreateVectorDatabaseEmbed(f, outcome)
    /\ UNCHANGED srvVars

\* the batch loop: collection.add; when it raises, create_vector_database
\* raises and the except branch of the job sets 'failed'
TaskVectorAdd(f) ==
    /\ tasks[f].pc = "batches"
    /\ CreateVectorDatabaseAdd(f)
    /\ IF jobs'[f].pc = "idle"
       THEN TaskFails(f, "vector_db")
       ELSE UNCHANGED <<file_processing_status, tasks>>
    /\ UNCHANGED <<chatbot, uploads>>

\* create_vector_database returns; the status entry is set to 'completed'
TaskVectorEnd(f) ==
    /\ tasks[f].pc = "batches"
    /\ CreateVectorDatabaseEnd(f)
    /\ file_processing_status' = [file_processing_status EXCEPT ![f] = "completed"]
    /\ tasks' = [tasks EXCEPT ![f].pc = "done", ![f].vector_db = "ok"]
    /\ UNCHANGED <<chatbot, uploads>>

\* delete_file: the file is removed from the upload folder, its status entry
\* is deleted and, if there is a chatbot, chatbot.remove_document(file_stem)
\* is called
DeleteFile(f) ==
    /\ uploads' = uploads \ {f}
    /\ file_processing_status' = [file_processing_status EXCEPT ![f] = None]
    /\ IF chatbot # None
       THEN RemoveDocument(f)
       ELSE UNCHANGED <<chatBotVars, mgrVars, sideVars>>
    /\ UNCHANGED <<chatbot, tasks>>

InitServer ==
    /\ providers = ManagerWithOpenAI.providers
    /\ current_provider = ManagerWithOpenAI.current_provider
    /\ current_text_model = ManagerWithOpenAI.current_text_model
    /\ current_embedding_model = ManagerWithOpenAI.current_embedding_model
    /\ usage_stats = ManagerWithOpenAI.usage_stats
    /\ mgrCall = NoCall
    /\ active_collections = <<>>
    /\ collections = [name \in {sanitize_collection_name(f) : f \in ServerFiles}
                        |-> NoCollection]
    /\ jobs = [f \in ServerFiles |-> Idle]
    /\ lastAnswer = NoAnswer
    /\ embedding_dim \in EmbeddingDimensions
    /\ chatCall = NoChatCall
    /\ chatbot \in {"ChatBot", None}
    /\ uploads = {}
    /\ file_processing_status = [f \in ServerFiles |-> None]
    /\ tasks = [f \in ServerFiles |-> NoTask]
    /\ InitSideVars

TaskStep(f) ==
    \/ TaskStart(f)
    \/ \E outcome \in StepOutcomes : TaskExtract(f, outcome)
    \/ \E outcome \in StepOutcomes : TaskCurriculum(f, outcome)
    \/ TaskVectorBegin(f)
    \/ TaskVectorSkip(f)
    \/ \E outcome \in ChatOutcomes : TaskVectorEmbed(f, outcome)
    \/ TaskVectorAdd(f)
    \/ TaskVectorEnd(f)

NextServer ==
    \/ \E f \in ServerFiles : UploadPdf(f)
    \/ \E f \in ServerFiles : TaskStep(f)
    \/ \E f \in ServerFiles : DeleteFile(f)

SpecServer == InitServer /\ [][NextServer]_vars

\* every job that is queued or running takes its next step
SpecServerFair ==
    SpecServer /\ \A f \in ServerFiles : WF_vars(TaskStep(f))

\* file_processing_status[f]["status"], None when f has no entry
Status(f) == file_processing_status[f]

Ended == {"completed", "failed"}

C29_DeletedFileHasNoStatusAndNoIndex ==
    \A f \in ServerFiles :
        f \notin uploads
            => /\ Status(f) = None
               /\ ~DictHas(active_collections, f)

\* the entry of the active set for the document, None when it has none
ActiveEntry(d) ==
    IF DictHas(active_collections, d) THEN DictGet(active_collections, d) ELSE None

\* the step is one of the background job of the file
JobStep(e) == tasks[e]' # tasks[e] \/ jobs[e]' # jobs[e]

\* C22: while the jobs of two different documents run concurrently, a step
\* of the job of one document changes neither the index of the other
\* document nor its entry of the active set nor its status, so that each
\* document ends as if its job had run alone.
C22_ConcurrentJobsDoNotInterfere ==
    [][\A d \in ServerFiles : \A e \in ServerFiles \ {d} :
          (Running(d) /\ Running(e) /\ JobStep(e))
              => /\ collections[sanitize_collection_name(d)]'
                        = collections[sanitize_collection_name(d)]
                 /\ ActiveEntry(d)' = ActiveEntry(d)
                 /\ Status(d)' = Status(d)]_vars

(***************************************************************************)
(* AIProcessor.create_curriculum (ai_processor.py).  The chunks of the     *)
(* document are named by their positions 1..n in the list that             *)
(* _split_text_into_chunks returned; the table of contents is the list of  *)
(* its titles.  A response of the provider is the list of its lines, each  *)
(* "section" (it starts with a digit or a dash and has a title) or         *)
(* "other"; the provider may also raise, for the structure and for the     *)
(* content of each section.                                                *)
(***************************************************************************)
section_names == <<"introduction", "main content", "advanced study", "conclusion",
                   "notes">>

\* a section of the structure; section_id is the number in 'section_<number>'
Section(number, title) == [section_id |-> number, title |-> title]

\* _create_default_structure
_create_default_structure(num_sections) ==
    [i \in 1..Min(num_sections, Len(section_names)) |-> Section(i, section_names[i])]

\* _use_existing_toc
_use_existing_toc(toc) == [i \in 1..Len(toc) |-> Section(i, toc[i])]

\* _parse_ai_structure_response: the lines recognised as sections, numbered
\* by their line; the default structure of 3 sections when there is none
_parse_ai_structure_response(ai_response) ==
    LET lines == SelectSeq([i \in 1..Len(ai_response) |-> i],
                           LAMBDA i : ai_response[i] = "section")
        structure == [k \in 1..Len(lines) |-> Section(lines[k], "title")]
    IN  IF structure # <<>> THEN structure ELSE _create_default_structure(3)

\* what the provider does: it raises, or it returns the text
Raise == [raises |-> TRUE, text |-> <<>>]

ProviderReturns(text) == [raises |-> FALSE, text |-> text]

\* _generate_ai_structure whose except branch sizes the default structure
\* by the sample chunks
_generate_ai_structure_by_sample(sample_chunks, outcome) ==
    IF outcome = Raise
    THEN _create_default_structure(Len(sample_chunks))
    ELSE _parse_ai_structure_response(outcome.text)

\* _generate_ai_structure: the parsed response; the default structure of 5
\* sections when the provider (or the parsing) raised
_generate_ai_structure(sample_chunks, outcome) ==
    IF outcome = Raise
    THEN _create_default_structure(5)
    ELSE _parse_ai_structure_response(outcome.text)

\* _create_curriculum_structure; neither branch raises, so its except
\* branch is not taken
_create_curriculum_structure(existing_toc, chunks, outcome) ==
    IF Len(existing_toc) > 0
    THEN _use_existing_toc(existing_toc)
    ELSE _generate_ai_structure(SubSeq(chunks, 1, Min(3, Len(chunks))), outcome)

\* chunks[start_idx:end_idx] of _generate_section_content for the i-th
\* section (i from 0)
section_chunks(chunks, chunks_per_section, i) ==
    LET start_idx == i * chunks_per_section
        end_idx == Min((i + 1) * chunks_per_section, Len(chunks))
    IN  SubSeq(chunks, start_idx + 1, end_idx)

\* _process_section_with_ai: the parsed response, or the default content
\* when the provider raised; both carry the chunks of the section
_process_section_with_ai(chunks, section, raises) ==
    [section_id      |-> section.section_id,
     summary         |-> IF raises THEN "default" ELSE "parsed",
     original_chunks |-> chunks,
     chunk_count     |-> Len(chunks)]

\* _generate_section_content, for a structure that is not empty; failing
\* are the positions of the sections for which the provider raises
_generate_section_content(chunks, structure, failing) ==
    LET chunks_per_section == Max(1, Len(chunks) \div Len(structure))
    IN  [k \in 1..Len(structure) |->
            _process_section_with_ai(section_chunks(chunks, chunks_per_section, k - 1),
                                     structure[k], k \in failing)]

\* create_curriculum: an exception of any step (the division by
\* len(structure) = 0 in _generate_section_content) is raised again
create_curriculum(extracted_data, outcome, failing) ==
    LET chunks == extracted_data.chunks
        structure == _create_curriculum_structure(extracted_data.toc, chunks, outcome)
    IN  IF structure = <<>>
        THEN [raised |-> TRUE, total_chunks |-> Len(chunks), structure |-> structure,
              content |-> <<>>]
        ELSE [raised |-> FALSE, total_chunks |-> Len(chunks), structure |-> structure,
              content |-> _generate_section_content(chunks, structure, failing)]

(***************************************************************************)
(* Documents of up to MaxChunks chunks and MaxToc titles, responses of up  *)
(* to MaxLines lines.                                                      *)
(***************************************************************************)
MaxChunks == 6

MaxToc == 2

MaxLines == 3

ChunkLists == {[i \in 1..n |-> i] : n \in 0..MaxChunks}

Tocs == {[i \in 1..n |-> "title"] : n \in 0..MaxToc}

Responses == UNION {[1..n -> {"section", "other"}] : n \in 0..MaxLines}

StructureOutcomes == {Raise} \cup {ProviderReturns(text) : text \in Responses}

\* one call of create_curriculum
CreateCurriculum(toc, chunks, outcome, failing) ==
    /\ textCall = <<>>
    /\ textCall' = <<[op      |-> "create_curriculum",
                      toc     |-> toc,
                      chunks  |-> chunks,
                      outcome |-> outcome,
                      failing |-> failing,
                      ret     |-> create_curriculum([toc |-> toc, chunks |-> chunks],
                                                    outcome, failing)]>>
    /\ UNCHANGED <<mgrVars, chatVars, threads>>

InitCurriculum ==
    /\ SetMgrInit
    /\ mgrCall = NoCall
    /\ InitChatVars
    /\ InitSideVars

NextCurriculum ==
    \E toc \in Tocs, chunks \in ChunkLists, outcome \in StructureOutcomes,
       failing \in SUBSET (1..Len(section_names)) :
        CreateCurriculum(toc, chunks, outcome, failing)

SpecCurriculum == InitCurriculum /\ [][NextCurriculum]_vars

CurriculumCalls == {i \in 1..Len(textCall) : textCall[i].op = "create_curriculum"}

\* the provider raised in the call: for the structure, or for a section
ProviderFailed(call) ==
    \/ call.toc = <<>> /\ call.outcome = Raise
    \/ call.failing \cap (1..Len(call.ret.structure)) # {}

\* the structure of the call is a default structure: there is no table of
\* contents and the provider raised or its response has no section
FallbackStructure(call) ==
    /\ call.toc = <<>>
    /\ \/ call.outcome = Raise
       \/ \A i \in 1..Len(call.outcome.text) : call.outcome.text[i] # "section"

\* C23: for any extracted document and any failure of text generation,
\* create_curriculum does not raise and returns a curriculum whose structure
\* is not empty; the default structure it falls back to has 3 to 5 sections.
C23_CurriculumSurvivesProviderFailure ==
    \A i \in CurriculumCalls :
        LET call == textCall[i] IN
        /\ ProviderFailed(call)
              => /\ ~call.ret.raised
                 /\ call.ret.structure # <<>>
                 /\ Len(call.ret.content) = Len(call.ret.structure)
        /\ FallbackStructure(call) => Len(call.ret.structure) \in 3..5

\* the provider raised for the structure and for a section of a document
\* without table of contents
C23_Witness ==
    \E i \in CurriculumCalls :
        /\ textCall[i].toc = <<>>
        /\ textCall[i].outcome = Raise
        /\ 1 \in textCall[i].failing
        /\ ~textCall[i].ret.raised
        /\ Len(textCall[i].ret.structure) = 5
        /\ textCall[i].ret.content[1].summary = "default"

\* C30: the chunk slices that _generate_section_content gives to the
\* sections are pairwise disjoint and in document order, and they cover
\* every chunk whenever there are at least as many chunks as sections.
C30_SlicesPartitionTheChunks ==
    \A i \in CurriculumCalls :
        LET call == textCall[i]
            content == call.ret.content
        IN  ~call.ret.raised
              => /\ \A k \in 1..Len(content) : \A l \in 1..Len(content) :
                        k < l => \A a \in Range(content[k].original_chunks) :
                                    \A b \in Range(content[l].original_chunks) : a < b
                 /\ \A k \in 1..Len(content) :
                        \A a \in 1..Len(content[k].original_chunks) :
                            \A b \in 1..Len(content[k].original_chunks) :
                                a < b => content[k].original_chunks[a]
                                            < content[k].original_chunks[b]
                 /\ Len(call.chunks) >= Len(content)
                        => UNION {Range(content[k].original_chunks) : k \in 1..Len(content)}
                              = Range(call.chunks)

====
